---- MODULE Spec2Model ----
(***************************************************************************)
(* Zenith Rewards backend (src/main.py): the PostgreSQL tables the service *)
(* reads and writes, and the request handlers as sequences of separately   *)
(* committed queries.  Every _execute_pg_query call opens its own          *)
(* connection and commits on its own, so a handler is not atomic: requests *)
(* served at the same time interleave between two queries.                 *)
(***************************************************************************)
EXTENDS Integers, Sequences, FiniteSets, Bags, TLC

VARIABLES
    clock,           \* datetime.now(timezone.utc), in ticks
    cfg,             \* module-level configuration read from the environment
    db,              \* the tables: users, ai_contents, votes, user_purchases, payout_requests
    stripe_intents,  \* payment intents created at Stripe (metadata user_id, item_id)
    proc,            \* the requests being served: position and local variables
    faults,          \* database faults injected so far
    budget           \* requests the service will still admit

vars == <<clock, cfg, db, stripe_intents, proc, faults, budget>>

-----------------------------------------------------------------------------
(* Bounds of the model *)

MaxClock == 3
TicksPerDay == 2
MaxFaults == 1
MaxContents == 2
MaxRequests == 3

Users == {"u1", "u2"}
Procs == {"p1", "p2"}
ContentIds == 1..MaxContents

-----------------------------------------------------------------------------
(* Time: a datetime is a tick count; .date() is the UTC calendar day *)

DateOf(t) == t \div TicksPerDay

\* datetime.isoformat() as get_user_profile applies it, and datetime.fromisoformat()
IsoFormat(t) == <<t \div TicksPerDay, t % TicksPerDay>>
FromIsoFormat(s) == s[1] * TicksPerDay + s[2]

-----------------------------------------------------------------------------
(* Enumerations and tables of constants *)

FREE == "free"
PREMIUM == "premium"
ASSISTANT == "assistant"
SubscriptionPlan == {FREE, PREMIUM, ASSISTANT}

ContentType == {"IMAGE", "POST", "VIDEO"}

AI_GENERATION_LIMITS(plan) ==
    CASE plan = FREE -> 3
      [] plan = PREMIUM -> 15
      [] plan = ASSISTANT -> 100
      [] OTHER -> 0

DAILY_VOTE_LIMITS(plan) ==
    CASE plan = FREE -> 5
      [] plan = PREMIUM -> 20
      [] plan = ASSISTANT -> 50
      [] OTHER -> 0

get_ai_cost_Flat(plan) == 100

get_ai_cost(plan) ==
    CASE plan = FREE -> 500
      [] plan = PREMIUM -> 200
      [] plan = ASSISTANT -> 100
      [] OTHER -> 1000

\* The environment's Stripe identifiers
STRIPE_PRICE_ID_PREMIUM == "price_premium"
STRIPE_PRICE_ID_ASSISTANT == "price_assistant"
NoCustomer == "none"
CustomerOf(u) == IF u = "u1" THEN "cus_u1" ELSE "cus_u2"
Customers == {CustomerOf(u) : u \in Users} \cup {"cus_unknown"}

-----------------------------------------------------------------------------
(* Exceptions and HTTP answers *)

NoExc == [kind |-> "none", code |-> 200, detail |-> <<"", "">>]
HTTPException(code, detail) == [kind |-> "http", code |-> code, detail |-> detail]
OtherException(what) == [kind |-> "other", code |-> 0, detail |-> <<what, "">>]

\* What _execute_pg_query raises for a failing query: psycopg2's error carries the
\* server's message and becomes HTTP 400, anything else becomes HTTP 500.
FaultKinds == {"psycopg2", "unexpected"}
PgFailure(kind, pgerror) ==
    IF kind = "psycopg2"
    THEN HTTPException(400, <<"Database error", pgerror>>)
    ELSE HTTPException(500, <<"Internal server error", "">>)

\* try/except at the endpoint boundary
\* (an HTTPException's detail is <<the handler's text, the database's message>>)
EndpointWrap(exc) ==
    CASE exc.kind = "none" -> 200
      [] exc.kind = "http" -> exc.code
      [] OTHER -> 500

\* request_payout_endpoint's except clauses
PayoutEndpointWrap_PassThrough(exc) ==
    CASE exc.kind = "none" -> 200
      [] exc.kind = "http" -> exc.code
      [] OTHER -> 500

PayoutEndpointWrap(exc) ==
    CASE exc.kind = "none" -> 200
      [] exc.kind = "http" ->
            IF "Punti insufficienti" \in {exc.detail[1], exc.detail[2]} THEN 402 ELSE exc.code
      [] OTHER -> 500

\* stripe_webhook has no try/except around its body
WebhookEndpoint(exc) ==
    CASE exc.kind = "none" -> 200
      [] exc.kind = "http" -> exc.code
      [] OTHER -> 0      \* a non-HTTP exception leaves the handler: no answer of this code

Respond(op, exc) ==
    CASE op = "request_payout" -> PayoutEndpointWrap(exc)
      [] op = "stripe_webhook" -> WebhookEndpoint(exc)
      [] OTHER -> EndpointWrap(exc)

-----------------------------------------------------------------------------
(* Tables *)

\* A users row as sync_user inserts it
NewUserRow(now) ==
    [ last_login_at |-> now,
      login_streak |-> 1,
      points_balance |-> 0,
      subscription_plan |-> FREE,
      daily_ai_generations_used |-> 0,
      last_generation_reset_date |-> now,
      daily_votes_used |-> 0,
      last_vote_reset_date |-> now,
      stripe_customer_id |-> NoCustomer,
      display_name |-> "signup name",
      avatar_url |-> "signup avatar" ]

UserColumns ==
    { "last_login_at", "login_streak", "points_balance", "subscription_plan",
      "daily_ai_generations_used", "last_generation_reset_date",
      "daily_votes_used", "last_vote_reset_date", "stripe_customer_id",
      "display_name", "avatar_url" }

\* The shop catalogue (rows of shop_items; the service only reads them)
ShopItems ==
    ( 1 :> [ item_type |-> "COSMETIC", has_price_points |-> TRUE, price_points |-> 300,
             has_price_eur |-> TRUE, generations |-> 0 ] ) @@
    ( 2 :> [ item_type |-> "GENERATION_PACK", has_price_points |-> TRUE, price_points |-> 200,
             has_price_eur |-> TRUE, generations |-> 2 ] ) @@
    ( 3 :> [ item_type |-> "BOOST", has_price_points |-> FALSE, price_points |-> 0,
             has_price_eur |-> TRUE, generations |-> 0 ] )
ItemIds == DOMAIN ShopItems
RequestItemIds == ItemIds \cup {9}     \* 9: an id of no catalogue row

UserExists(d, u) == u \in DOMAIN d.users

\* The columns and tables in which two database states differ
Changed(old, new) ==
    { c \in UserColumns :
        \E u \in DOMAIN old.users \cap DOMAIN new.users : old.users[u][c] # new.users[u][c] }
    \cup (IF DOMAIN old.users # DOMAIN new.users THEN {"users"} ELSE {})
    \cup (IF old.ai_contents # new.ai_contents THEN {"ai_contents"} ELSE {})
    \cup (IF old.votes # new.votes THEN {"votes"} ELSE {})
    \cup (IF old.user_purchases # new.user_purchases THEN {"user_purchases"} ELSE {})
    \cup (IF old.payout_requests # new.payout_requests THEN {"payout_requests"} ELSE {})

-----------------------------------------------------------------------------
(* Requests *)

NoEvent == [type |-> "none", customer |-> NoCustomer, price |-> "none", status |-> "none",
            user_id |-> "none", item_id |-> ""]

\* get_user_profile's answer for a user without a row
DefaultProfile(now) ==
    [ found |-> FALSE,
      subscription_plan |-> FREE,
      daily_ai_generations_used |-> 0,
      last_generation_reset_date |-> IsoFormat(now),
      daily_votes_used |-> 0,
      last_vote_reset_date |-> IsoFormat(now),
      points_balance |-> 0,
      stripe_customer_id |-> NoCustomer ]

\* get_user_profile: the row with both reset dates converted to ISO strings
get_user_profile(d, u, now) ==
    IF ~UserExists(d, u) THEN DefaultProfile(now)
    ELSE [ found |-> TRUE,
           subscription_plan |-> d.users[u].subscription_plan,
           daily_ai_generations_used |-> d.users[u].daily_ai_generations_used,
           last_generation_reset_date |-> IsoFormat(d.users[u].last_generation_reset_date),
           daily_votes_used |-> d.users[u].daily_votes_used,
           last_vote_reset_date |-> IsoFormat(d.users[u].last_vote_reset_date),
           points_balance |-> d.users[u].points_balance,
           stripe_customer_id |-> d.users[u].stripe_customer_id ]

\* The row sync_user selects (found = FALSE: no row)
NoRecord ==
    [ found |-> FALSE, last_login_at |-> 0, login_streak |-> 0,
      daily_ai_generations_used |-> 0, last_generation_reset_date |-> 0,
      daily_votes_used |-> 0, last_vote_reset_date |-> 0 ]

SyncRecord(d, u) ==
    IF ~UserExists(d, u) THEN NoRecord
    ELSE [ found |-> TRUE,
           last_login_at |-> d.users[u].last_login_at,
           login_streak |-> d.users[u].login_streak,
           daily_ai_generations_used |-> d.users[u].daily_ai_generations_used,
           last_generation_reset_date |-> d.users[u].last_generation_reset_date,
           daily_votes_used |-> d.users[u].daily_votes_used,
           last_vote_reset_date |-> d.users[u].last_vote_reset_date ]

Idle ==
    [ pc |-> "idle", op |-> "none", user |-> "none", now |-> 0,
      item |-> 0, content |-> 0, pay |-> "none", ctype |-> "none", event |-> NoEvent,
      signature_ok |-> TRUE, customer |-> NoCustomer,
      profile |-> DefaultProfile(0), record |-> NoRecord, used |-> 0, stored |-> 0,
      feed |-> << >>, points_amount |-> 0, amount_eur |-> <<0, 1>>,
      raised |-> NoExc, resp |-> 0, touched |-> {} ]

Free(p) == proc[p].pc \in {"idle", "done"}

\* A new request takes a free worker; the workers are interchangeable, so the
\* second one is taken only while the first is busy
MayStart(p) == budget > 0 /\ Free(p) /\ (p = "p2" => ~Free("p1"))

\* A request stops: the manager returned (NoExc) or raised exc; the endpoint answers
Finished(q, exc) ==
    [q EXCEPT !.pc = "done", !.raised = exc, !.resp = Respond(q.op, exc)]

Finish(p, exc) == proc' = [proc EXCEPT ![p] = Finished(proc[p], exc)]

\* A query of request p commits newdb and the request goes on as next
Commit(p, newdb, next) ==
    /\ db' = newdb
    /\ proc' = [next EXCEPT ![p].touched = @ \cup Changed(db, newdb)]

\* _execute_pg_query fails: the handler's except clauses turn the HTTPException
\* it raises into exc(kind)
CanFault == faults < MaxFaults

\* The except clauses a failing query's HTTPException passes through in the manager
Propagate(e) == e
AdviceCatch(e) == HTTPException(503, <<"AI service error", e.detail[1]>>)
ContentCatch(e) == HTTPException(500, <<"Errore durante la generazione AI", e.detail[1]>>)

\* _execute_pg_query raises instead of committing; handler names the manager's
\* try block the query is in ("none": the query is in no try block)
Caught(handler, e) ==
    CASE handler = "generate_advice" -> AdviceCatch(e)
      [] handler = "generate_content" -> ContentCatch(e)
      [] OTHER -> Propagate(e)

QueryFails(p, handler) ==
    /\ CanFault
    /\ \E k \in FaultKinds :
         /\ faults' = faults + 1
         /\ Finish(p, Caught(handler, PgFailure(k, "error")))
    /\ UNCHANGED <<clock, cfg, db, stripe_intents, budget>>

-----------------------------------------------------------------------------
(* The clock *)

Tick ==
    /\ clock < MaxClock
    /\ clock' = clock + 1
    /\ UNCHANGED <<cfg, db, stripe_intents, proc, faults, budget>>

-----------------------------------------------------------------------------
(* UserManager.sync_user *)

\* A bug sync_user could have: a login on the same date lengthens the streak
NewStreak_CountsEveryLogin(rec, now) ==
    LET days_diff == DateOf(now) - DateOf(rec.last_login_at)
    IN  IF days_diff = 1 \/ days_diff = 0 THEN rec.login_streak + 1 ELSE 1

\* new_streak, from the last_login_at and login_streak that were read
NewStreak(rec, now) ==
    LET last_login_dt == rec.last_login_at
        current_streak == rec.login_streak
        days_diff == DateOf(now) - DateOf(last_login_dt)
    IN  IF days_diff = 1 THEN current_streak + 1
        ELSE IF days_diff = 0 THEN current_streak
        ELSE 1

\* A bug the date comparison could have: a reset on the reset date itself
ResetDue_SameDayToo(now, last_reset) == DateOf(now) >= DateOf(last_reset)

\* now.date() > last_reset.date(): a daily counter is due for its reset
ResetDue(now, last_reset) == DateOf(now) > DateOf(last_reset)

\* The values sync_user's UPDATE writes for an existing user, from the row it read
SyncUserUpdate(rec, now) ==
    LET gen_reset == ResetDue(now, rec.last_generation_reset_date)
        vote_reset == ResetDue(now, rec.last_vote_reset_date)
    IN  [ last_login_at |-> now,
          login_streak |-> NewStreak(rec, now),
          daily_ai_generations_used |-> IF gen_reset THEN 0 ELSE rec.daily_ai_generations_used,
          last_generation_reset_date |-> IF gen_reset THEN now ELSE rec.last_generation_reset_date,
          daily_votes_used |-> IF vote_reset THEN 0 ELSE rec.daily_votes_used,
          last_vote_reset_date |-> IF vote_reset THEN now ELSE rec.last_vote_reset_date ]

ApplySyncUpdate_WholeRow(d, u, w) ==
    IF ~UserExists(d, u) THEN d
    ELSE [d EXCEPT !.users[u] = [NewUserRow(w.last_login_at) EXCEPT
                                    !.login_streak = w.login_streak,
                                    !.daily_ai_generations_used = w.daily_ai_generations_used,
                                    !.last_generation_reset_date = w.last_generation_reset_date,
                                    !.daily_votes_used = w.daily_votes_used,
                                    !.last_vote_reset_date = w.last_vote_reset_date]]

\* UPDATE users SET <the six columns> WHERE user_id = u
ApplySyncUpdate(d, u, w) ==
    IF ~UserExists(d, u) THEN d
    ELSE [d EXCEPT !.users[u].last_login_at = w.last_login_at,
                   !.users[u].login_streak = w.login_streak,
                   !.users[u].daily_ai_generations_used = w.daily_ai_generations_used,
                   !.users[u].last_generation_reset_date = w.last_generation_reset_date,
                   !.users[u].daily_votes_used = w.daily_votes_used,
                   !.users[u].last_vote_reset_date = w.last_vote_reset_date]

\* now = datetime.now(timezone.utc), taken before the first query
SyncUserBegin(p, u) ==
    /\ MayStart(p)
    /\ budget' = budget - 1
    /\ proc' = [proc EXCEPT ![p] = [Idle EXCEPT !.pc = "sync_fetch", !.op = "sync_user",
                                                !.user = u, !.now = clock]]
    /\ UNCHANGED <<clock, cfg, db, stripe_intents, faults>>

\* SELECT ... FROM users WHERE user_id = %s
SyncUserFetch(p) ==
    /\ proc[p].pc = "sync_fetch"
    /\ \/ /\ proc' = [proc EXCEPT ![p].pc = "sync_write",
                                  ![p].record = SyncRecord(db, proc[p].user)]
          /\ UNCHANGED <<clock, cfg, db, stripe_intents, faults, budget>>
       \/ QueryFails(p, "none")

\* INSERT INTO users (a second row for a user_id is refused by the primary key),
\* or UPDATE users SET ... for the row that was read
SyncUserWrite(p) ==
    LET q == proc[p]
        u == q.user
    IN  /\ q.pc = "sync_write"
        /\ \/ /\ ~q.record.found
              /\ IF UserExists(db, u)
                 THEN /\ Finish(p, PgFailure("psycopg2", "duplicate key"))
                      /\ UNCHANGED db
                 ELSE Commit(p, [db EXCEPT !.users = (u :> NewUserRow(q.now)) @@ @],
                             [proc EXCEPT ![p] = Finished(q, NoExc)])
              /\ UNCHANGED <<clock, cfg, stripe_intents, faults, budget>>
           \/ /\ q.record.found
              /\ Commit(p, ApplySyncUpdate(db, u, SyncUserUpdate(q.record, q.now)),
                        [proc EXCEPT ![p] = Finished(q, NoExc)])
              /\ UNCHANGED <<clock, cfg, stripe_intents, faults, budget>>
           \/ QueryFails(p, "none")

-----------------------------------------------------------------------------
(* AIManager.generate_advice *)

\* UPDATE users SET <column> = v WHERE user_id = u (no row: nothing is updated)
SetUserColumns(d, u, w) ==
    IF ~UserExists(d, u) THEN d
    ELSE [d EXCEPT !.users[u] = [c \in DOMAIN @ |-> IF c \in DOMAIN w THEN w[c] ELSE @[c]]]

\* The availability check, then get_user_profile
AdviceFetch(p, u) ==
    /\ MayStart(p)
    /\ budget' = budget - 1
    /\ LET q == [Idle EXCEPT !.op = "generate_advice", !.user = u, !.now = clock]
       IN  IF ~(cfg.vertexai_initialized /\ cfg.gemini_flash_model)
           THEN /\ proc' = [proc EXCEPT ![p] =
                              Finished(q, HTTPException(503, <<"AI service (Gemini Flash) is not available", "">>))]
                /\ UNCHANGED <<clock, cfg, db, stripe_intents, faults>>
           ELSE \/ /\ proc' = [proc EXCEPT ![p] =
                                 [q EXCEPT !.pc = "advice_reset",
                                           !.profile = get_user_profile(db, u, clock),
                                           !.used = get_user_profile(db, u, clock).daily_ai_generations_used]]
                   /\ UNCHANGED <<clock, cfg, db, stripe_intents, faults>>
                \/ /\ CanFault
                   /\ \E k \in FaultKinds :
                        /\ faults' = faults + 1
                        /\ proc' = [proc EXCEPT ![p] = Finished(q, PgFailure(k, "error"))]
                   /\ UNCHANGED <<clock, cfg, db, stripe_intents>>

\* if today > last_reset_dt.date(): generations_used = 0 and the reset UPDATE
AdviceReset(p) ==
    LET q == proc[p]
        last_reset_dt == FromIsoFormat(q.profile.last_generation_reset_date)
    IN  /\ q.pc = "advice_reset"
        /\ IF ResetDue(clock, last_reset_dt)
           THEN \/ /\ Commit(p, SetUserColumns(db, q.user,
                                   [daily_ai_generations_used |-> 0,
                                    last_generation_reset_date |-> clock]),
                             [proc EXCEPT ![p].pc = "advice_generate", ![p].used = 0])
                   /\ UNCHANGED <<clock, cfg, stripe_intents, faults, budget>>
                \/ QueryFails(p, "none")
           ELSE /\ proc' = [proc EXCEPT ![p].pc = "advice_generate"]
                /\ UNCHANGED <<clock, cfg, db, stripe_intents, faults, budget>>

\* UPDATE users SET daily_ai_generations_used = %s with generations_used + 1
AdviceIncrement_ByTwo(d, u, generations_used) ==
    SetUserColumns(d, u, [daily_ai_generations_used |-> generations_used + 2])

AdviceIncrement(d, u, generations_used) ==
    SetUserColumns(d, u, [daily_ai_generations_used |-> generations_used + 1])

\* The quota check, the model call and the increment of the counter
AdviceGenerate(p) ==
    LET q == proc[p]
        user_plan == q.profile.subscription_plan
    IN  /\ q.pc = "advice_generate"
        /\ IF q.used >= AI_GENERATION_LIMITS(user_plan)
           THEN /\ Finish(p, HTTPException(429, <<"Hai raggiunto il limite di generazioni AI giornaliere", "">>))
                /\ UNCHANGED <<clock, cfg, db, stripe_intents, faults, budget>>
           ELSE \/ \* gemini_flash_model.generate_content raises
                   /\ Finish(p, AdviceCatch(OtherException("model call failed")))
                   /\ UNCHANGED <<clock, cfg, db, stripe_intents, faults, budget>>
                \/ /\ Commit(p, AdviceIncrement(db, q.user, q.used),
                             [proc EXCEPT ![p] = Finished(q, NoExc)])
                   /\ UNCHANGED <<clock, cfg, stripe_intents, faults, budget>>
                \/ QueryFails(p, "generate_advice")

-----------------------------------------------------------------------------
(* Stored procedures of the database *)

deduct_points_Unconditional(d, u, amount) ==
    IF UserExists(d, u)
    THEN [ok |-> TRUE, db |-> [d EXCEPT !.users[u].points_balance = @ - amount]]
    ELSE [ok |-> FALSE, db |-> d]

\* deduct_points(user_id, amount, reason): the conditional balance update.  The
\* result is [ok, db]: insufficient points (or no such user) raise in the database.
deduct_points(d, u, amount) ==
    IF UserExists(d, u) /\ d.users[u].points_balance >= amount
    THEN [ok |-> TRUE, db |-> [d EXCEPT !.users[u].points_balance = @ - amount]]
    ELSE [ok |-> FALSE, db |-> d]

\* increment_content_votes(content_id): votes = votes + 1 in one statement
increment_content_votes(d, c) ==
    IF c \in DOMAIN d.ai_contents
    THEN [d EXCEPT !.ai_contents[c].votes = @ + 1]
    ELSE d

\* request_payout_function(user_id, points, eur, method, address): debits the
\* balance and files a pending request, or raises 'Punti insufficienti'
request_payout_function(d, u, points_amount, amount_eur) ==
    IF UserExists(d, u) /\ d.users[u].points_balance >= points_amount
    THEN [ok |-> TRUE,
          db |-> [d EXCEPT !.users[u].points_balance = @ - points_amount,
                           !.payout_requests = @ (+) SetToBag({[user_id |-> u,
                                points_amount |-> points_amount, amount_eur |-> amount_eur,
                                status |-> "pending"]})]]
    ELSE [ok |-> FALSE, db |-> d]

-----------------------------------------------------------------------------
(* AIManager.generate_content *)

InFlightContents == Cardinality({p \in Procs : proc[p].pc = "content_generate"})

\* The availability check, get_user_profile and the balance check
\* if not vertexai_initialized: the first statement of generate_content
ContentUnavailable_Never(c) == FALSE

ContentUnavailable(c) == ~c.vertexai_initialized

ContentFetch(p, u, ctype, pay) ==
    /\ MayStart(p)
    /\ budget' = budget - 1
    /\ Len(db.ai_contents) + InFlightContents < MaxContents
    /\ LET q == [Idle EXCEPT !.op = "generate_content", !.user = u, !.ctype = ctype, !.pay = pay]
           user_profile == get_user_profile(db, u, clock)
           cost == get_ai_cost(user_profile.subscription_plan)
       IN  IF ContentUnavailable(cfg)
           THEN /\ proc' = [proc EXCEPT ![p] =
                              Finished(q, HTTPException(503, <<"AI service is not available.", "">>))]
                /\ UNCHANGED <<clock, cfg, db, stripe_intents, faults>>
           ELSE \/ /\ IF pay = "points" /\ user_profile.points_balance < cost
                      THEN proc' = [proc EXCEPT ![p] =
                              Finished(q, HTTPException(402, <<"Punti insufficienti.", "">>))]
                      ELSE proc' = [proc EXCEPT ![p] =
                              [q EXCEPT !.pc = "content_generate", !.profile = user_profile]]
                   /\ UNCHANGED <<clock, cfg, db, stripe_intents, faults>>
                \/ /\ CanFault
                   /\ \E k \in FaultKinds :
                        /\ faults' = faults + 1
                        /\ proc' = [proc EXCEPT ![p] = Finished(q, PgFailure(k, "error"))]
                   /\ UNCHANGED <<clock, cfg, db, stripe_intents>>

\* The model calls and INSERT INTO ai_contents ... RETURNING id, inside try
ContentGenerate(p) ==
    LET q == proc[p]
        ai_content_id == Len(db.ai_contents) + 1
    IN  /\ q.pc = "content_generate"
        /\ IF q.ctype = "IMAGE" /\ ~cfg.gemini_pro_vision_model
           THEN /\ Finish(p, ContentCatch(HTTPException(503,
                                <<"AI image generation model not available.", "">>)))
                /\ UNCHANGED <<clock, cfg, db, stripe_intents, faults, budget>>
           ELSE \/ \* a model call raises
                   /\ Finish(p, ContentCatch(OtherException("model call failed")))
                   /\ UNCHANGED <<clock, cfg, db, stripe_intents, faults, budget>>
                \/ /\ Commit(p, [db EXCEPT !.ai_contents =
                                    Append(@, [user_id |-> q.user, is_published |-> FALSE,
                                               votes |-> 0])],
                             [proc EXCEPT ![p].stored = ai_content_id,
                                          ![p].pc = IF q.pay = "points" THEN "content_deduct"
                                                    ELSE "content_count"])
                   /\ UNCHANGED <<clock, cfg, stripe_intents, faults, budget>>
                \/ QueryFails(p, "generate_content")

\* SELECT deduct_points(user_id, cost['points'], ...)
ContentDeduct(p) ==
    LET q == proc[p]
        r == deduct_points(db, q.user, get_ai_cost(q.profile.subscription_plan))
    IN  /\ q.pc = "content_deduct"
        /\ \/ /\ IF r.ok
                 THEN Commit(p, r.db, [proc EXCEPT ![p].pc = "content_count"])
                 ELSE /\ Finish(p, ContentCatch(PgFailure("psycopg2", "Punti insufficienti")))
                      /\ UNCHANGED db
              /\ UNCHANGED <<clock, cfg, stripe_intents, faults, budget>>
           \/ QueryFails(p, "generate_content")

\* UPDATE users SET daily_ai_generations_used = daily_ai_generations_used + 1, ...
ContentCount(p) ==
    LET q == proc[p]
    IN  /\ q.pc = "content_count"
        /\ \/ /\ Commit(p, IF UserExists(db, q.user)
                           THEN [db EXCEPT !.users[q.user].daily_ai_generations_used = @ + 1]
                           ELSE db,
                        [proc EXCEPT ![p] = Finished(q, NoExc)])
              /\ UNCHANGED <<clock, cfg, stripe_intents, faults, budget>>
           \/ QueryFails(p, "generate_content")

-----------------------------------------------------------------------------
(* AIManager.vote_content *)

\* get_user_profile
VoteFetch(p, u, c) ==
    /\ MayStart(p)
    /\ budget' = budget - 1
    /\ LET q == [Idle EXCEPT !.op = "vote_content", !.user = u, !.content = c]
       IN  \/ /\ proc' = [proc EXCEPT ![p] =
                            [q EXCEPT !.pc = "vote_reset",
                                      !.profile = get_user_profile(db, u, clock),
                                      !.used = get_user_profile(db, u, clock).daily_votes_used]]
              /\ UNCHANGED <<clock, cfg, db, stripe_intents, faults>>
           \/ /\ CanFault
              /\ \E k \in FaultKinds :
                   /\ faults' = faults + 1
                   /\ proc' = [proc EXCEPT ![p] = Finished(q, PgFailure(k, "error"))]
              /\ UNCHANGED <<clock, cfg, db, stripe_intents>>

\* if today > last_vote_reset_dt.date(): daily_votes_used = 0 and the reset UPDATE
VoteReset(p) ==
    LET q == proc[p]
        last_vote_reset_dt == FromIsoFormat(q.profile.last_vote_reset_date)
    IN  /\ q.pc = "vote_reset"
        /\ IF ResetDue(clock, last_vote_reset_dt)
           THEN \/ /\ Commit(p, SetUserColumns(db, q.user,
                                   [daily_votes_used |-> 0, last_vote_reset_date |-> clock]),
                             [proc EXCEPT ![p].pc = "vote_check", ![p].used = 0])
                   /\ UNCHANGED <<clock, cfg, stripe_intents, faults, budget>>
                \/ QueryFails(p, "none")
           ELSE /\ proc' = [proc EXCEPT ![p].pc = "vote_check"]
                /\ UNCHANGED <<clock, cfg, db, stripe_intents, faults, budget>>

\* The daily limit, then SELECT id FROM votes WHERE user_id = %s AND content_id = %s
VoteCheck(p) ==
    LET q == proc[p]
    IN  /\ q.pc = "vote_check"
        /\ IF q.used >= DAILY_VOTE_LIMITS(q.profile.subscription_plan)
           THEN /\ Finish(p, HTTPException(429, <<"Hai raggiunto il limite giornaliero di voti", "">>))
                /\ UNCHANGED <<clock, cfg, db, stripe_intents, faults, budget>>
           ELSE \/ /\ IF db.votes[<<q.user, q.content>>] > 0
                      THEN Finish(p, HTTPException(400, <<"Hai gia' votato questo contenuto.", "">>))
                      ELSE proc' = [proc EXCEPT ![p].pc = "vote_owner"]
                   /\ UNCHANGED <<clock, cfg, db, stripe_intents, faults, budget>>
                \/ QueryFails(p, "none")

\* content_owner_res and content_owner_res['user_id'] == user_id
IsOwner_Never(d, c, u) == FALSE

IsOwner(d, c, u) == c \in DOMAIN d.ai_contents /\ d.ai_contents[c].user_id = u

\* SELECT user_id FROM ai_contents WHERE id = %s
VoteOwner(p) ==
    LET q == proc[p]
    IN  /\ q.pc = "vote_owner"
        /\ \/ /\ IF IsOwner(db, q.content, q.user)
                 THEN Finish(p, HTTPException(400, <<"Non puoi votare il tuo stesso contenuto.", "">>))
                 ELSE proc' = [proc EXCEPT ![p].pc = "vote_insert"]
              /\ UNCHANGED <<clock, cfg, db, stripe_intents, faults, budget>>
           \/ QueryFails(p, "none")

\* INSERT INTO votes (user_id, content_id, voted_at)
VoteInsert(p) ==
    LET q == proc[p]
    IN  /\ q.pc = "vote_insert"
        /\ \/ /\ Commit(p, [db EXCEPT !.votes[<<q.user, q.content>>] = @ + 1],
                        [proc EXCEPT ![p].pc = "vote_increment"])
              /\ UNCHANGED <<clock, cfg, stripe_intents, faults, budget>>
           \/ QueryFails(p, "none")

\* SELECT increment_content_votes(content_id)
VoteIncrement(p) ==
    LET q == proc[p]
    IN  /\ q.pc = "vote_increment"
        /\ \/ /\ Commit(p, increment_content_votes(db, q.content),
                        [proc EXCEPT ![p].pc = "vote_count"])
              /\ UNCHANGED <<clock, cfg, stripe_intents, faults, budget>>
           \/ QueryFails(p, "none")

\* UPDATE users SET daily_votes_used = daily_votes_used (as read) + 1
VoteCount(p) ==
    LET q == proc[p]
    IN  /\ q.pc = "vote_count"
        /\ \/ /\ Commit(p, SetUserColumns(db, q.user, [daily_votes_used |-> q.used + 1]),
                        [proc EXCEPT ![p] = Finished(q, NoExc)])
              /\ UNCHANGED <<clock, cfg, stripe_intents, faults, budget>>
           \/ QueryFails(p, "none")

-----------------------------------------------------------------------------
(* ShopManager.buy_item and ShopManager._apply_item_effect *)

\* get_user_profile
BuyFetch(p, u, item_id, pay) ==
    /\ MayStart(p)
    /\ budget' = budget - 1
    /\ LET q == [Idle EXCEPT !.op = "buy_item", !.user = u, !.item = item_id, !.pay = pay]
       IN  \/ /\ proc' = [proc EXCEPT ![p] =
                            [q EXCEPT !.pc = "buy_item",
                                      !.profile = get_user_profile(db, u, clock)]]
              /\ UNCHANGED <<clock, cfg, db, stripe_intents, faults>>
           \/ /\ CanFault
              /\ \E k \in FaultKinds :
                   /\ faults' = faults + 1
                   /\ proc' = [proc EXCEPT ![p] = Finished(q, PgFailure(k, "error"))]
              /\ UNCHANGED <<clock, cfg, db, stripe_intents>>

\* What follows the payment in _apply_item_effect: the generation pack reads the
\* counter first, every other item goes straight to the purchase log
EffectEntry(item_id) ==
    IF ShopItems[item_id].item_type = "GENERATION_PACK" /\ ShopItems[item_id].generations > 0
    THEN "effect_fetch"
    ELSE "effect_log"

\* SELECT ... FROM shop_items WHERE id = %s, then the branch on payment_method:
\* the balance check, or the Stripe payment intent
BuyItem(p) ==
    LET q == proc[p]
        found == q.item \in ItemIds
        item == ShopItems[q.item]
    IN  /\ q.pc = "buy_item"
        /\ \/ /\ ~found
              /\ Finish(p, HTTPException(404, <<"Item not found.", "">>))
              /\ UNCHANGED <<clock, cfg, db, stripe_intents, faults, budget>>
           \/ /\ found /\ q.pay = "points"
              /\ IF ~item.has_price_points
                 THEN Finish(p, OtherException("TypeError: '<' not supported between int and NoneType"))
                 ELSE IF q.profile.points_balance < item.price_points
                 THEN Finish(p, HTTPException(402, <<"Punti insufficienti per l'acquisto.", "">>))
                 ELSE proc' = [proc EXCEPT ![p].pc = "buy_deduct"]
              /\ UNCHANGED <<clock, cfg, db, stripe_intents, faults, budget>>
           \/ /\ found /\ q.pay = "stripe"
              /\ IF ~cfg.STRIPE_SECRET_KEY
                 THEN /\ Finish(p, HTTPException(500, <<"Stripe not configured.", "">>))
                      /\ UNCHANGED stripe_intents
                 ELSE IF ~item.has_price_eur
                 THEN /\ Finish(p, HTTPException(400, <<"Questo articolo non ha un prezzo in EUR definito.", "">>))
                      /\ UNCHANGED stripe_intents
                 ELSE \/ \* stripe.PaymentIntent.create raises
                         /\ Finish(p, HTTPException(500, <<"Errore Stripe", "">>))
                         /\ UNCHANGED stripe_intents
                      \/ /\ stripe_intents' = stripe_intents \cup {<<q.user, q.item>>}
                         /\ Finish(p, NoExc)
              /\ UNCHANGED <<clock, cfg, db, faults, budget>>
           \/ QueryFails(p, "none")

\* SELECT deduct_points(user_id, item['price_points'], ...)
BuyDeduct(p) ==
    LET q == proc[p]
        r == deduct_points(db, q.user, ShopItems[q.item].price_points)
    IN  /\ q.pc = "buy_deduct"
        /\ \/ /\ IF r.ok
                 THEN Commit(p, r.db, [proc EXCEPT ![p].pc = EffectEntry(q.item)])
                 ELSE /\ Finish(p, PgFailure("psycopg2", "Punti insufficienti"))
                      /\ UNCHANGED db
              /\ UNCHANGED <<clock, cfg, stripe_intents, faults, budget>>
           \/ QueryFails(p, "none")

\* GENERATION_PACK: SELECT daily_ai_generations_used FROM users WHERE user_id = %s
EffectFetch(p) ==
    LET q == proc[p]
    IN  /\ q.pc = "effect_fetch"
        /\ \/ /\ IF UserExists(db, q.user)
                 THEN proc' = [proc EXCEPT ![p].pc = "effect_update",
                                           ![p].used = db.users[q.user].daily_ai_generations_used]
                 ELSE proc' = [proc EXCEPT ![p].pc = "effect_log"]
              /\ UNCHANGED <<clock, cfg, db, stripe_intents, faults, budget>>
           \/ QueryFails(p, "none")

\* GENERATION_PACK: UPDATE users SET daily_ai_generations_used = (read) - generations
EffectUpdate(p) ==
    LET q == proc[p]
    IN  /\ q.pc = "effect_update"
        /\ \/ /\ Commit(p, SetUserColumns(db, q.user,
                              [daily_ai_generations_used |-> q.used - ShopItems[q.item].generations]),
                        [proc EXCEPT ![p].pc = "effect_log"])
              /\ UNCHANGED <<clock, cfg, stripe_intents, faults, budget>>
           \/ QueryFails(p, "none")

\* The row _apply_item_effect logs
PurchaseRow_AlwaysStripe(u, item_id, pay) ==
    [ user_id |-> u, item_id |-> item_id, payment_method |-> "stripe",
      amount_paid_points |-> 0, points_paid |-> FALSE, status |-> "completed" ]

PurchaseRow(u, item_id, pay) ==
    [ user_id |-> u, item_id |-> item_id, payment_method |-> pay,
      amount_paid_points |-> IF pay = "points" THEN ShopItems[item_id].price_points ELSE 0,
      points_paid |-> pay = "points",
      status |-> "completed" ]

\* INSERT INTO user_purchases
EffectLog(p) ==
    LET q == proc[p]
    IN  /\ q.pc = "effect_log"
        /\ \/ /\ Commit(p, [db EXCEPT !.user_purchases =
                               @ (+) SetToBag({PurchaseRow(q.user, q.item, q.pay)})],
                        [proc EXCEPT ![p] = Finished(q, NoExc)])
              /\ UNCHANGED <<clock, cfg, stripe_intents, faults, budget>>
           \/ QueryFails(p, "none")

-----------------------------------------------------------------------------
(* stripe_webhook *)

SubscriptionEvents ==
    { [type |-> t, customer |-> c, price |-> pr, status |-> st, user_id |-> "none", item_id |-> ""] :
        t \in {"customer.subscription.created", "customer.subscription.updated",
               "customer.subscription.deleted"},
        c \in Customers,
        pr \in {STRIPE_PRICE_ID_PREMIUM, STRIPE_PRICE_ID_ASSISTANT, "price_other"},
        st \in {"active", "trialing", "canceled"} }

\* payment_intent.succeeded; metadata values are text ("": the key is missing)
PaymentEvent(u, item_id) ==
    [type |-> "payment_intent.succeeded", customer |-> NoCustomer, price |-> "none",
     status |-> "succeeded", user_id |-> u, item_id |-> item_id]

OtherEvent ==
    [type |-> "invoice.paid", customer |-> NoCustomer, price |-> "none",
     status |-> "paid", user_id |-> "none", item_id |-> ""]

\* int(item_id): the number a decimal text denotes, or ValueError
ParseInt(text) ==
    CASE text = "1" -> [ok |-> TRUE, value |-> 1]
      [] text = "2" -> [ok |-> TRUE, value |-> 2]
      [] text = "3" -> [ok |-> TRUE, value |-> 3]
      [] text = "9" -> [ok |-> TRUE, value |-> 9]
      [] OTHER -> [ok |-> FALSE, value |-> 0]

UsersOfCustomer_FirstRow(d, customer) == DOMAIN d.users

\* SELECT user_id FROM users WHERE stripe_customer_id = %s: the users found
UsersOfCustomer(d, customer) ==
    {u \in DOMAIN d.users : d.users[u].stripe_customer_id = customer}

WebhookPlan_IgnoresStatus(ev) ==
    IF ev.type = "customer.subscription.deleted" THEN FREE
    ELSE IF ev.price = STRIPE_PRICE_ID_PREMIUM THEN PREMIUM
    ELSE IF ev.price = STRIPE_PRICE_ID_ASSISTANT THEN ASSISTANT
    ELSE FREE

\* The plan a subscription event writes
WebhookPlan(ev) ==
    IF ev.type = "customer.subscription.deleted" THEN FREE
    ELSE LET new_plan == IF ev.price = STRIPE_PRICE_ID_PREMIUM THEN PREMIUM
                         ELSE IF ev.price = STRIPE_PRICE_ID_ASSISTANT THEN ASSISTANT
                         ELSE FREE
         IN  IF ev.status \in {"active", "trialing"} THEN new_plan ELSE FREE

\* The UPDATE users SET subscription_plan = %s WHERE user_id = %s of a subscription event
WebhookPlanUpdate_RaisesOneTier(d, u, ev) ==
    SetUserColumns(d, u, [subscription_plan |->
        IF d.users[u].subscription_plan = FREE THEN PREMIUM ELSE ASSISTANT])

WebhookPlanUpdate(d, u, ev) ==
    SetUserColumns(d, u, [subscription_plan |-> WebhookPlan(ev)])

\* The secret check and construct_event: what the handler raises before it
\* reads the event
VerifyWebhook_TrustsAll(secret_configured, signature_ok) == NoExc

VerifyWebhook(secret_configured, signature_ok) ==
    IF ~secret_configured
    THEN HTTPException(500, <<"Stripe webhook secret not configured.", "">>)
    ELSE IF ~signature_ok
    THEN HTTPException(400, <<"Invalid signature", "">>)
    ELSE NoExc

\* The secret check, construct_event and the branch on the event type
WebhookReceive(p, ev, signature_ok) ==
    /\ MayStart(p)
    /\ budget' = budget - 1
    /\ LET q == [Idle EXCEPT !.op = "stripe_webhook", !.event = ev,
                             !.signature_ok = signature_ok]
           refused == VerifyWebhook(cfg.STRIPE_WEBHOOK_SECRET, signature_ok)
       IN  proc' = [proc EXCEPT ![p] =
             IF refused # NoExc
             THEN Finished(q, refused)
             ELSE IF ev.type \in {"customer.subscription.created", "customer.subscription.updated",
                                  "customer.subscription.deleted"}
             THEN [q EXCEPT !.pc = "webhook_user"]
             ELSE IF ev.type = "payment_intent.succeeded"
             THEN IF ev.user_id # "none" /\ ev.item_id # ""
                  THEN IF ParseInt(ev.item_id).ok
                       THEN [q EXCEPT !.pc = "webhook_item", !.user = ev.user_id,
                                      !.item = ParseInt(ev.item_id).value, !.pay = "stripe"]
                       ELSE Finished(q, OtherException("ValueError: invalid literal for int()"))
                  ELSE Finished(q, NoExc)
             ELSE Finished(q, NoExc)]
    /\ UNCHANGED <<clock, cfg, db, stripe_intents, faults>>

\* SELECT user_id FROM users WHERE stripe_customer_id = %s
WebhookUser(p) ==
    LET q == proc[p]
        found == UsersOfCustomer(db, q.event.customer)
    IN  /\ q.pc = "webhook_user"
        /\ \/ /\ IF found = {}
                 THEN Finish(p, NoExc)
                 ELSE \E u \in found : proc' = [proc EXCEPT ![p].pc = "webhook_plan", ![p].user = u]
              /\ UNCHANGED <<clock, cfg, db, stripe_intents, faults, budget>>
           \/ QueryFails(p, "none")

\* UPDATE users SET subscription_plan = %s WHERE user_id = %s
WebhookSetPlan(p) ==
    LET q == proc[p]
    IN  /\ q.pc = "webhook_plan"
        /\ \/ /\ Commit(p, IF UserExists(db, q.user)
                           THEN WebhookPlanUpdate(db, q.user, q.event)
                           ELSE db,
                        [proc EXCEPT ![p] = Finished(q, NoExc)])
              /\ UNCHANGED <<clock, cfg, stripe_intents, faults, budget>>
           \/ QueryFails(p, "none")

\* payment_intent.succeeded: SELECT ... FROM shop_items WHERE id = %s
WebhookItem(p) ==
    LET q == proc[p]
    IN  /\ q.pc = "webhook_item"
        /\ \/ /\ IF q.item \in ItemIds
                 THEN proc' = [proc EXCEPT ![p].pc = EffectEntry(q.item)]
                 ELSE Finish(p, NoExc)
              /\ UNCHANGED <<clock, cfg, db, stripe_intents, faults, budget>>
           \/ QueryFails(p, "none")

-----------------------------------------------------------------------------
(* request_payout_endpoint *)

\* SELECT request_payout_function(...) and the endpoint's reading of the result
\* An amount in EUR as the quotient of two integers
POINTS_TO_EUR_RATE == 1000

\* payout_data.points_amount / POINTS_TO_EUR_RATE
EurOfPoints(points_amount) == <<points_amount, POINTS_TO_EUR_RATE>>

\* The one query of the endpoint; the function returns a result, returns none
\* (having filed the request or not), or raises
RequestPayout(p, u, points_amount) ==
    /\ MayStart(p)
    /\ budget' = budget - 1
    /\ LET q == [Idle EXCEPT !.op = "request_payout", !.user = u,
                             !.points_amount = points_amount,
                             !.amount_eur = EurOfPoints(points_amount)]
           r == request_payout_function(db, u, points_amount, q.amount_eur)
           empty == HTTPException(400, <<"Failed to process payout request. Check database function logs.", "">>)
       IN  \/ /\ IF r.ok
                 THEN \/ Commit(p, r.db, [proc EXCEPT ![p] = Finished(q, NoExc)])
                      \/ Commit(p, r.db, [proc EXCEPT ![p] = Finished(q, empty)])
                      \/ Commit(p, db, [proc EXCEPT ![p] = Finished(q, empty)])
                 ELSE /\ proc' = [proc EXCEPT ![p] =
                                    Finished(q, PgFailure("psycopg2", "Punti insufficienti"))]
                      /\ UNCHANGED db
              /\ UNCHANGED <<clock, cfg, stripe_intents, faults>>
           \/ /\ CanFault
              /\ \E k \in FaultKinds :
                   /\ faults' = faults + 1
                   /\ proc' = [proc EXCEPT ![p] = Finished(q, PgFailure(k, "error"))]
              /\ UNCHANGED <<clock, cfg, db, stripe_intents>>

-----------------------------------------------------------------------------
(* UserManager.update_profile *)

\* The texts a profile update may carry; "null": the field is not given
ProfileTexts == {"null", "new text"}

\* The whole of update_profile: 400 without data, else one UPDATE of the
\* columns given
UpdateProfile(p, u, display_name, avatar_url) ==
    /\ MayStart(p)
    /\ budget' = budget - 1
    /\ LET q == [Idle EXCEPT !.op = "update_profile", !.user = u]
           given == (IF display_name # "null" THEN "display_name" :> display_name ELSE << >>)
                    @@ (IF avatar_url # "null" THEN "avatar_url" :> avatar_url ELSE << >>)
       IN  IF DOMAIN given = {}
           THEN /\ proc' = [proc EXCEPT ![p] =
                              Finished(q, HTTPException(400, <<"No data provided to update.", "">>))]
                /\ UNCHANGED <<clock, cfg, db, stripe_intents, faults>>
           ELSE \/ /\ Commit(p, SetUserColumns(db, u, given),
                             [proc EXCEPT ![p] = Finished(q, NoExc)])
                   /\ UNCHANGED <<clock, cfg, stripe_intents, faults>>
                \/ /\ CanFault
                   /\ \E k \in FaultKinds :
                        /\ faults' = faults + 1
                        /\ proc' = [proc EXCEPT ![p] = Finished(q, PgFailure(k, "error"))]
                   /\ UNCHANGED <<clock, cfg, db, stripe_intents>>

-----------------------------------------------------------------------------
(* create_checkout_session_endpoint *)

\* The ids stripe.Customer.create hands out, each once
NewCustomers == {"cus_new1", "cus_new2"}

IssuedCustomers ==
    {db.users[u].stripe_customer_id : u \in DOMAIN db.users}
    \cup {proc[p].customer : p \in Procs}

\* What the endpoint's except clauses make of a failing Stripe call
StripeError == HTTPException(500, <<"Errore Stripe", "">>)

\* The configuration and plan checks, get_user_profile and, for a user without
\* a Stripe customer, stripe.Customer.create; for a user with one, the checkout
\* session
CheckoutBegin(p, u, plan_type) ==
    /\ MayStart(p)
    /\ budget' = budget - 1
    /\ LET q == [Idle EXCEPT !.op = "create_checkout_session", !.user = u]
           user_profile_data == get_user_profile(db, u, clock)
       IN  IF ~cfg.STRIPE_SECRET_KEY
           THEN /\ proc' = [proc EXCEPT ![p] =
                              Finished(q, HTTPException(500, <<"Stripe not configured.", "">>))]
                /\ UNCHANGED <<clock, cfg, db, stripe_intents, faults>>
           ELSE IF plan_type \notin {"premium", "assistant"}
           THEN /\ proc' = [proc EXCEPT ![p] =
                              Finished(q, HTTPException(400, <<"Invalid plan type specified.", "">>))]
                /\ UNCHANGED <<clock, cfg, db, stripe_intents, faults>>
           ELSE \/ /\ IF user_profile_data.stripe_customer_id # NoCustomer
                      THEN \/ proc' = [proc EXCEPT ![p] = Finished(q, StripeError)]
                           \/ proc' = [proc EXCEPT ![p] = Finished(q, NoExc)]
                      ELSE \/ proc' = [proc EXCEPT ![p] = Finished(q, StripeError)]
                           \/ /\ NewCustomers \ IssuedCustomers # {}
                              /\ proc' = [proc EXCEPT ![p] =
                                   [q EXCEPT !.pc = "checkout_customer",
                                             !.profile = user_profile_data,
                                             !.customer =
                                                CHOOSE c \in NewCustomers \ IssuedCustomers : TRUE]]
                   /\ UNCHANGED <<clock, cfg, db, stripe_intents, faults>>
                \/ /\ CanFault
                   /\ \E k \in FaultKinds :
                        /\ faults' = faults + 1
                        /\ proc' = [proc EXCEPT ![p] = Finished(q, PgFailure(k, "error"))]
                   /\ UNCHANGED <<clock, cfg, db, stripe_intents>>

\* UPDATE users SET stripe_customer_id = %s WHERE user_id = %s, then the
\* checkout session
CheckoutCustomer(p) ==
    LET q == proc[p]
    IN  /\ q.pc = "checkout_customer"
        /\ \/ /\ \E exc \in {NoExc, StripeError} :
                    Commit(p, SetUserColumns(db, q.user, [stripe_customer_id |-> q.customer]),
                           [proc EXCEPT ![p] = Finished(q, exc)])
              /\ UNCHANGED <<clock, cfg, stripe_intents, faults, budget>>
           \/ QueryFails(p, "none")

-----------------------------------------------------------------------------
(* Initial states *)

\* The configurations the module-level initialisation can leave (lines 37-67): the
\* two models and vertexai_initialized are set one after the other in one try block
Configs ==
    { c \in [ vertexai_initialized : BOOLEAN, gemini_flash_model : BOOLEAN,
              gemini_pro_vision_model : BOOLEAN, STRIPE_SECRET_KEY : BOOLEAN,
              STRIPE_WEBHOOK_SECRET : BOOLEAN ] :
        /\ c.gemini_pro_vision_model => c.gemini_flash_model
        /\ c.vertexai_initialized <=> c.gemini_pro_vision_model }

FullConfig ==
    [ vertexai_initialized |-> TRUE, gemini_flash_model |-> TRUE,
      gemini_pro_vision_model |-> TRUE, STRIPE_SECRET_KEY |-> TRUE,
      STRIPE_WEBHOOK_SECRET |-> TRUE ]

\* A row of a user who signed up at time 0 and has since earned points and
\* possibly subscribed
SeedUserRow(balance, plan, customer) ==
    [NewUserRow(0) EXCEPT !.points_balance = balance, !.subscription_plan = plan,
                          !.stripe_customer_id = customer]

EmptyDb ==
    [ users |-> << >>, ai_contents |-> << >>,
      votes |-> [k \in Users \X ContentIds |-> 0],
      user_purchases |-> EmptyBag, payout_requests |-> EmptyBag ]

\* The service starts at time t0 with one of the configurations and one of the
\* database states given
InitWith(configs, seeds, t0, requests) ==
    /\ clock = t0
    /\ cfg \in configs
    /\ db \in seeds
    /\ stripe_intents = {}
    /\ proc = [p \in Procs |-> Idle]
    /\ faults = 0
    /\ budget = requests

-----------------------------------------------------------------------------
(* sync_user alone: two workers, an existing user and a user who signs up *)

\* u1 has no row yet, or signed up two days ago or today and has a streak of 2
\* and two generations and one vote counted since the last reset
SyncSeeds ==
    { EmptyDb } \cup
    { [EmptyDb EXCEPT !.users =
         ("u1" :> [NewUserRow(t0) EXCEPT !.login_streak = 2,
                                         !.daily_ai_generations_used = 2,
                                         !.daily_votes_used = 1])] :
        t0 \in {0 - 2 * TicksPerDay, 0} }

InitSync == InitWith({FullConfig}, SyncSeeds, 0, MaxRequests + 1)

NextSync ==
    \/ Tick
    \/ \E p \in Procs : SyncUserBegin(p, "u1")
    \/ \E p \in Procs : SyncUserFetch(p)
    \/ \E p \in Procs : SyncUserWrite(p)

SpecSync == InitSync /\ [][NextSync]_vars

\* The request of worker p ends in this step with answer code
Ends(p, op, code) ==
    /\ proc[p].pc # "done"
    /\ proc'[p].pc = "done"
    /\ proc'[p].op = op
    /\ proc'[p].resp = code

DailyColumns ==
    { "login_streak", "daily_ai_generations_used", "last_generation_reset_date",
      "daily_votes_used", "last_vote_reset_date" }

\* C8: a sync_user of an existing user on the UTC date of the previous sync (the
\* row it read is still the stored row, and its last_login_at is of today) leaves
\* login_streak, both daily counters and both reset dates as they are and sets
\* last_login_at to its own time.
C8_SameDaySyncStep ==
    \A p \in Procs :
        LET q == proc[p]
            u == q.user
        IN  ( /\ Ends(p, "sync_user", 200)
              /\ q.pc = "sync_write"
              /\ q.record.found
              /\ q.record = SyncRecord(db, u)
              /\ DateOf(q.now) = DateOf(q.record.last_login_at) )
            => /\ \A c \in DailyColumns : db'.users[u][c] = db.users[u][c]
               /\ db'.users[u].last_login_at = q.now

C8_SyncIdempotentSameDay == [][C8_SameDaySyncStep]_vars

\* C8 witness: a second sync of the day has ended and moved last_login_at only
C8_Witness ==
    \E p \in Procs :
        /\ proc[p].pc = "done" /\ proc[p].op = "sync_user" /\ proc[p].resp = 200
        /\ proc[p].touched = {"last_login_at"}

\* C9 (the computation): the streak an UPDATE of sync_user writes is old + 1 when
\* the request's date is one day after the date of the last_login_at it read, old
\* when it is the same date, and 1 otherwise; a created row has streak 1.
C9_StreakStep ==
    \A p \in Procs :
        LET q == proc[p]
            u == q.user
            d == DateOf(q.now) - DateOf(q.record.last_login_at)
        IN  (Ends(p, "sync_user", 200) /\ q.pc = "sync_write")
            => db'.users[u].login_streak =
                 IF ~q.record.found THEN 1
                 ELSE IF d = 1 THEN q.record.login_streak + 1
                 ELSE IF d = 0 THEN q.record.login_streak
                 ELSE 1

\* C9 (the consequences): a streak is at least 1, and u1's streak of 2 at day 0 or
\* before, like the streak 1 of a user created since, has grown by at most one a day
C9_StreakBounds ==
    \A u \in DOMAIN db.users :
        /\ db.users[u].login_streak >= 1
        /\ db.users[u].login_streak <= 2 + DateOf(clock)

\* C9: the streak computation of sync_user and what follows from it
C9_StreakComputation == [][C9_StreakStep]_vars /\ []C9_StreakBounds

\* C9 witness: one request has grown the streak to 3 the day after the last login
\* it read, and another, whose date is before the last login it read, has put the
\* streak back to 1
C9_Witness ==
    \E p, r \in Procs :
        /\ proc[p].pc = "done" /\ proc[p].op = "sync_user" /\ proc[p].resp = 200
        /\ proc[p].record.found /\ proc[p].record.login_streak = 2
        /\ DateOf(proc[p].now) = DateOf(proc[p].record.last_login_at) + 1
        /\ proc[r].pc = "done" /\ proc[r].op = "sync_user" /\ proc[r].resp = 200
        /\ proc[r].record.found
        /\ DateOf(proc[r].now) < DateOf(proc[r].record.last_login_at)
        /\ db.users["u1"].login_streak = 1

-----------------------------------------------------------------------------
(* The daily counters over a day boundary: sync_user, generate_advice and
   vote_content of one user on two workers *)

\* u1 signed up at time 0; content 1 is u2's
DailySeeds ==
    { [EmptyDb EXCEPT !.users = ("u1" :> NewUserRow(0)),
                      !.ai_contents = << [user_id |-> "u2", is_published |-> TRUE, votes |-> 0] >>] }

\* The service is observed from the last tick of day 0
InitDaily == InitWith({FullConfig}, DailySeeds, TicksPerDay - 1, MaxRequests)

NextDaily ==
    \/ Tick
    \/ \E p \in Procs : SyncUserBegin(p, "u1")
    \/ \E p \in Procs : SyncUserFetch(p)
    \/ \E p \in Procs : SyncUserWrite(p)
    \/ \E p \in Procs : AdviceFetch(p, "u1")
    \/ \E p \in Procs : AdviceReset(p)
    \/ \E p \in Procs : AdviceGenerate(p)
    \/ \E p \in Procs : VoteFetch(p, "u1", 1)
    \/ \E p \in Procs : VoteReset(p)
    \/ \E p \in Procs : VoteCheck(p)
    \/ \E p \in Procs : VoteOwner(p)
    \/ \E p \in Procs : VoteInsert(p)
    \/ \E p \in Procs : VoteIncrement(p)
    \/ \E p \in Procs : VoteCount(p)

SpecDaily == InitDaily /\ [][NextDaily]_vars

\* Worker p commits a reset of the generation counter in this step
GenResetStep(p) ==
    LET q == proc[p]
    IN  \/ /\ q.pc = "advice_reset" /\ proc'[p].pc = "advice_generate"
           /\ ResetDue(clock, FromIsoFormat(q.profile.last_generation_reset_date))
        \/ /\ q.pc = "sync_write" /\ Ends(p, "sync_user", 200) /\ q.record.found
           /\ ResetDue(q.now, q.record.last_generation_reset_date)

\* Worker p commits a reset of the vote counter in this step
VoteResetStep(p) ==
    LET q == proc[p]
    IN  \/ /\ q.pc = "vote_reset" /\ proc'[p].pc = "vote_check"
           /\ ResetDue(clock, FromIsoFormat(q.profile.last_vote_reset_date))
        \/ /\ q.pc = "sync_write" /\ Ends(p, "sync_user", 200) /\ q.record.found
           /\ ResetDue(q.now, q.record.last_vote_reset_date)

\* C3: a daily counter is reset once per UTC day: a request resets a counter only
\* when the stored reset date is of an earlier UTC date than today, so that no
\* request resets a counter that was already reset today.
C3_ResetStep ==
    \A p \in Procs :
        LET u == proc[p].user
        IN  /\ GenResetStep(p) =>
                DateOf(db.users[u].last_generation_reset_date) < DateOf(clock)
            /\ VoteResetStep(p) =>
                DateOf(db.users[u].last_vote_reset_date) < DateOf(clock)

C3_ResetOncePerDay == [][C3_ResetStep]_vars

\* C2: a user votes at most once per content item: the votes table holds at most
\* one row for each (user_id, content_id) pair, and the content's vote count was
\* incremented at most once for each pair.
C2_VoteOncePerContent ==
    /\ \A k \in Users \X ContentIds : db.votes[k] <= 1
    /\ \A c \in DOMAIN db.ai_contents :
         db.ai_contents[c].votes <= Cardinality({u \in Users : db.votes[<<u, c>>] > 0})

-----------------------------------------------------------------------------
(* Paying: buy_item and generate_content of one user on two workers *)

Configs_NoVertex ==
    [FullConfig EXCEPT !.vertexai_initialized = FALSE, !.gemini_flash_model = FALSE,
                       !.gemini_pro_vision_model = FALSE]

\* u1 is on the free plan, has used the three generations of the day and owns
\* 100 or 500 points; u2 has no row
ShopSeeds ==
    { [EmptyDb EXCEPT !.users =
         ("u1" :> [SeedUserRow(balance, FREE, NoCustomer) EXCEPT
                      !.daily_ai_generations_used = 3])] :
        balance \in {100, 500} }

InitShop == InitWith({FullConfig, Configs_NoVertex}, ShopSeeds, 0, MaxRequests - 1)

NextShop ==
    \/ \E p \in Procs, u \in Users, item_id \in RequestItemIds, pay \in {"points", "stripe"} :
          BuyFetch(p, u, item_id, pay)
    \/ \E p \in Procs : BuyItem(p)
    \/ \E p \in Procs : BuyDeduct(p)
    \/ \E p \in Procs : EffectFetch(p)
    \/ \E p \in Procs : EffectUpdate(p)
    \/ \E p \in Procs : EffectLog(p)
    \/ \E p \in Procs, u \in Users, ctype \in {"IMAGE", "POST"}, pay \in {"points", "stripe"} :
          ContentFetch(p, u, ctype, pay)
    \/ \E p \in Procs : ContentGenerate(p)
    \/ \E p \in Procs : ContentDeduct(p)
    \/ \E p \in Procs : ContentCount(p)

SpecShop == InitShop /\ [][NextShop]_vars

\* The points one paid request of worker p costs, as the handler computes them
DebitOf(q) ==
    IF q.op = "buy_item" THEN ShopItems[q.item].price_points
    ELSE get_ai_cost(q.profile.subscription_plan)

\* C1 (every debit): when buy_item or generate_content changes a balance, the
\* balance before the step was at least the cost, and the step takes the cost off.
C1_DebitStep ==
    \A u \in DOMAIN db.users :
        db'.users[u].points_balance # db.users[u].points_balance
        => \E p \in Procs :
              /\ proc[p].pc \in {"buy_deduct", "content_deduct"}
              /\ proc[p].pc # proc'[p].pc
              /\ proc[p].user = u
              /\ db.users[u].points_balance >= DebitOf(proc[p])
              /\ db'.users[u].points_balance = db.users[u].points_balance - DebitOf(proc[p])

\* C1: under any interleaving of points-paid buy_item and generate_content requests
\* no points_balance is ever negative, and a debit is applied only to a balance
\* that covers it at the moment of the debit.
C1_BalanceNeverNegative ==
    /\ [](\A u \in DOMAIN db.users : db.users[u].points_balance >= 0)
    /\ [][C1_DebitStep]_vars

\* C1 witness: two paid requests both passed their balance check on 500 points;
\* one was debited, and the debit of the other was refused by the database
C1_Witness ==
    \E p, r \in Procs :
        /\ p # r
        /\ proc[p].pc = "done" /\ proc[p].pay = "points"
        /\ "points_balance" \in proc[p].touched
        /\ proc[r].pc = "done" /\ proc[r].pay = "points"
        /\ proc[r].profile.points_balance = 500
        /\ proc[r].raised.detail[2] = "Punti insufficienti"
        /\ db.users["u1"].points_balance < DebitOf(proc[r])
        /\ db.users["u1"].points_balance >= 0

\* C6: daily_ai_generations_used of a user never exceeds the generation limit of
\* the user's plan.
C6_QuotaNeverExceeded ==
    \A u \in DOMAIN db.users :
        db.users[u].daily_ai_generations_used
            <= AI_GENERATION_LIMITS(db.users[u].subscription_plan)

\* The plan costs of generate_content as the claim C7 lists them
C7_PlanCost(plan) ==
    CASE plan = FREE -> 500
      [] plan = PREMIUM -> 200
      [] plan = ASSISTANT -> 100

\* The stored balance of user u, 0 for a user without a row
BalanceOf(d, u) == IF UserExists(d, u) THEN d.users[u].points_balance ELSE 0
PlanOf(d, u) == IF UserExists(d, u) THEN d.users[u].subscription_plan ELSE FREE

\* A generate_content request paid with points arrives in this step, no query
\* of it fails, and the user's balance is below the cost of the user's plan
C7_ContentShort(p) ==
    /\ proc[p].pc \in {"idle", "done"}
    /\ proc'[p] # proc[p]
    /\ proc'[p].op = "generate_content"
    /\ proc'[p].pay = "points"
    /\ faults' = faults
    /\ BalanceOf(db, proc'[p].user) < C7_PlanCost(PlanOf(db, proc'[p].user))

\* buy_item paid with points has read the item in this step, no query of it
\* fails, the item has a price in points and the balance read is below it
C7_BuyShort(p) ==
    /\ proc[p].pc = "buy_item"
    /\ proc'[p].pc # "buy_item"
    /\ proc[p].pay = "points"
    /\ faults' = faults
    /\ proc[p].item \in ItemIds
    /\ ShopItems[proc[p].item].has_price_points
    /\ proc[p].profile.points_balance < ShopItems[proc[p].item].price_points

\* The request of p is rejected with 402 in this step and has changed nothing
C7_Rejected(p) ==
    /\ proc'[p].pc = "done"
    /\ proc'[p].resp = 402
    /\ proc'[p].touched = {}
    /\ db' = db

\* C7 as stated: a points-paid request whose balance is below the cost is rejected
\* with HTTP 402 and leaves points_balance, daily_ai_generations_used, ai_contents
\* and user_purchases unchanged.
C7_InsufficientBalance_AsStated ==
    [][\A p \in Procs : (C7_ContentShort(p) \/ C7_BuyShort(p)) => C7_Rejected(p)]_vars

\* C7 amended: the same, for generate_content only while Vertex AI is initialised
\* (otherwise the request is answered 503 before the balance is looked at).
C7_InsufficientBalance ==
    [][\A p \in Procs :
          /\ (C7_ContentShort(p) /\ cfg.vertexai_initialized) => C7_Rejected(p)
          /\ (C7_ContentShort(p) /\ ~cfg.vertexai_initialized) =>
                (proc'[p].pc = "done" /\ proc'[p].resp = 503
                 /\ proc'[p].touched = {} /\ db' = db)
          /\ C7_BuyShort(p) => C7_Rejected(p)]_vars

\* C7 witness: a generate_content and a buy_item were both rejected with 402 for a
\* balance of 100
C7_Witness ==
    \E p, r \in Procs :
        /\ proc[p].pc = "done" /\ proc[p].op = "generate_content" /\ proc[p].pay = "points"
        /\ proc[p].resp = 402 /\ proc[p].touched = {}
        /\ proc[r].pc = "done" /\ proc[r].op = "buy_item" /\ proc[r].pay = "points"
        /\ proc[r].resp = 402 /\ proc[r].touched = {}
        /\ proc[r].profile.points_balance = 100
        /\ db.users["u1"].points_balance = 100

-----------------------------------------------------------------------------
(* Stripe: webhook deliveries and payout requests on two workers *)

Configs_NoWebhookSecret == [FullConfig EXCEPT !.STRIPE_WEBHOOK_SECRET = FALSE]

\* u1 is a Stripe customer on the free or the premium plan and owns 500 points
StripeSeeds ==
    { [EmptyDb EXCEPT !.users = ("u1" :> SeedUserRow(500, plan, CustomerOf("u1")))] :
        plan \in {FREE, PREMIUM} }

\* The events delivered: the subscription events of u1's customer (a created
\* subscription with every price and status, an updated one of the premium price
\* with every status, a deleted one in one form: the handler reads neither its
\* price nor its status), one of a customer of no user, payments with sound,
\* unknown, non-numeric and missing item ids, and an event type the handler does
\* not know
StripeEvents ==
    { ev \in SubscriptionEvents :
        /\ ev.customer = CustomerOf("u1")
        /\ ev.type = "customer.subscription.updated" => ev.price = STRIPE_PRICE_ID_PREMIUM
        /\ ev.type = "customer.subscription.deleted"
              => (ev.price = STRIPE_PRICE_ID_PREMIUM /\ ev.status = "canceled") }
    \cup { ev \in SubscriptionEvents :
             /\ ev.customer = "cus_unknown" /\ ev.type = "customer.subscription.created"
             /\ ev.price = STRIPE_PRICE_ID_PREMIUM /\ ev.status = "active" }
    \cup { PaymentEvent("u1", text) : text \in {"2", "9", "abc", ""} }
    \cup { OtherEvent }

InitStripe ==
    InitWith({FullConfig, Configs_NoWebhookSecret}, StripeSeeds, 0, MaxRequests - 1)

NextStripe ==
    \/ \E p \in Procs, ev \in StripeEvents, signature_ok \in BOOLEAN :
          WebhookReceive(p, ev, signature_ok)
    \/ \E p \in Procs : WebhookUser(p)
    \/ \E p \in Procs : WebhookSetPlan(p)
    \/ \E p \in Procs : WebhookItem(p)
    \/ \E p \in Procs : EffectFetch(p)
    \/ \E p \in Procs : EffectUpdate(p)
    \/ \E p \in Procs : EffectLog(p)
    \/ \E p \in Procs, points_amount \in {100, 600} : RequestPayout(p, "u1", points_amount)

SpecStripe == InitStripe /\ [][NextStripe]_vars

\* The subscription plan of every user
Plans(d) == [u \in DOMAIN d.users |-> d.users[u].subscription_plan]

\* The database after one whole delivery of ev in which no query fails, as far as
\* subscription plans go: a subscription event updates the user of its customer,
\* every other event leaves the plans alone
C4_Delivered(d, ev) ==
    IF ev.type \in {"customer.subscription.created", "customer.subscription.updated",
                    "customer.subscription.deleted"}
       /\ UsersOfCustomer(d, ev.customer) # {}
    THEN WebhookPlanUpdate(d, CHOOSE u \in UsersOfCustomer(d, ev.customer) : TRUE, ev)
    ELSE d

\* A delivery that is answered 200 leaves the plans of one whole delivery, and
\* nothing but the plan update of a delivery changes a plan
C4_DeliveryStep ==
    /\ \A p \in Procs :
          Ends(p, "stripe_webhook", 200)
          => Plans(db') = Plans(C4_Delivered(db, proc'[p].event))
    /\ Plans(db') # Plans(db)
          => \E p \in Procs : proc[p].pc = "webhook_plan" /\ Ends(p, "stripe_webhook", 200)

\* C4: in every state and for every event, the plans after two deliveries of the
\* event are the plans after one delivery of it.
C4_WebhookIdempotent ==
    /\ [](\A ev \in StripeEvents :
            Plans(C4_Delivered(C4_Delivered(db, ev), ev)) = Plans(C4_Delivered(db, ev)))
    /\ [][C4_DeliveryStep]_vars

\* C4 witness: one subscription event was delivered twice and answered 200 twice;
\* the first delivery changed u1's plan, the second changed nothing
C4_Witness ==
    \E p, r \in Procs :
        /\ p # r
        /\ proc[p].pc = "done" /\ proc[p].op = "stripe_webhook" /\ proc[p].resp = 200
        /\ proc[r].pc = "done" /\ proc[r].op = "stripe_webhook" /\ proc[r].resp = 200
        /\ proc[p].event = proc[r].event
        /\ proc[p].touched = {"subscription_plan"}
        /\ proc[r].touched = {} /\ proc[r].user = "u1"
        /\ db.users["u1"].subscription_plan = WebhookPlan(proc[p].event)

\* C5: a delivery is answered 500 when the webhook secret is not configured and
\* 400 when construct_event rejects it, and such a delivery changes nothing; only
\* a verified delivery goes on to touch the database.
C5_VerifiedBeforeMutation ==
    \A p \in Procs :
        proc[p].op = "stripe_webhook"
        => /\ ~cfg.STRIPE_WEBHOOK_SECRET
                => (proc[p].pc = "done" /\ proc[p].resp = 500 /\ proc[p].touched = {})
           /\ (cfg.STRIPE_WEBHOOK_SECRET /\ ~proc[p].signature_ok)
                => (proc[p].pc = "done" /\ proc[p].resp = 400 /\ proc[p].touched = {})
           /\ (proc[p].pc # "done" \/ proc[p].touched # {})
                => (cfg.STRIPE_WEBHOOK_SECRET /\ proc[p].signature_ok)

\* C5 witness: a delivery with a bad signature of an event that would have moved
\* u1 to another plan was answered 400 and u1's plan is the seeded one; nothing
\* was written by any request
C5_Witness ==
    \E p \in Procs :
        /\ proc[p].pc = "done" /\ proc[p].op = "stripe_webhook"
        /\ ~proc[p].signature_ok /\ proc[p].resp = 400 /\ proc[p].touched = {}
        /\ proc[p].event.customer = CustomerOf("u1")
        /\ Plans(C4_Delivered(db, proc[p].event)) # Plans(db)
        /\ \A r \in Procs : proc[r].touched = {}

\* C10: an HTTPException raised by a manager or by _execute_pg_query reaches the
\* client with its status code, any other exception is answered 500, and no
\* exception leaves an endpoint unanswered.
C10_ErrorsReachClient ==
    \A p \in Procs :
        proc[p].pc = "done"
        => /\ proc[p].raised.kind = "http" => proc[p].resp = proc[p].raised.code
           /\ proc[p].raised.kind = "other" => proc[p].resp = 500

-----------------------------------------------------------------------------
(* The subscription branches of stripe_webhook *)

SubscriptionTypes ==
    {"customer.subscription.created", "customer.subscription.updated",
     "customer.subscription.deleted"}

\* The plan claim C11 gives a subscription event
C11_ClaimedPlan(ev) ==
    IF ev.type = "customer.subscription.deleted" THEN FREE
    ELSE IF ev.status \in {"active", "trialing"} /\ ev.price = STRIPE_PRICE_ID_PREMIUM
    THEN PREMIUM
    ELSE IF ev.status \in {"active", "trialing"} /\ ev.price = STRIPE_PRICE_ID_ASSISTANT
    THEN ASSISTANT
    ELSE FREE

\* A subscription event of a known customer is carried out in this step
C11_MappingStep ==
    \A p \in Procs :
        (proc[p].pc = "webhook_plan" /\ Ends(p, "stripe_webhook", 200))
        => /\ proc[p].event.type \in SubscriptionTypes
           /\ UsersOfCustomer(db, proc[p].event.customer) = {proc[p].user}
           /\ db'.users[proc[p].user].subscription_plan = C11_ClaimedPlan(proc[p].event)

\* C11: a subscription event of a known customer sets the user's plan to premium
\* or assistant exactly when the status is active or trialing and the price is
\* the premium or the assistant price, to free for every other created or updated
\* event and for every deleted one; every stored plan is free, premium or assistant.
C11_SubscriptionMapping ==
    /\ [][C11_MappingStep]_vars
    /\ [](\A u \in DOMAIN db.users : db.users[u].subscription_plan \in SubscriptionPlan)

\* C11 witness: a trialing subscription of the assistant price has made u1 an
\* assistant, and a canceled subscription of the premium price left the other
\* delivery's plan in place only because it was carried out first
C11_Witness ==
    \E p, r \in Procs :
        /\ proc[p].pc = "done" /\ proc[p].op = "stripe_webhook" /\ proc[p].resp = 200
        /\ proc[p].event.type = "customer.subscription.created"
        /\ proc[p].event.status = "trialing"
        /\ proc[p].event.price = STRIPE_PRICE_ID_ASSISTANT
        /\ proc[p].touched = {"subscription_plan"}
        /\ proc[r].pc = "done" /\ proc[r].op = "stripe_webhook" /\ proc[r].resp = 200
        /\ proc[r].event.type = "customer.subscription.updated"
        /\ proc[r].event.status = "canceled"
        /\ proc[r].user = "u1"
        /\ db.users["u1"].subscription_plan = ASSISTANT

\* No user has the Stripe customer id the event names
C12_NoSuchCustomer(d, ev) ==
    \A u \in DOMAIN d.users : d.users[u].stripe_customer_id # ev.customer

HandledTypes == SubscriptionTypes \cup {"payment_intent.succeeded"}

\* The request of p is answered 200 in this step and has changed nothing
C12_IgnoredWith200(p) ==
    /\ proc'[p].pc = "done"
    /\ proc'[p].resp = 200
    /\ proc'[p].touched = {}
    /\ db' = db

\* The lookup of a subscription event's customer finds no user (the query itself
\* does not fail), or a verified event of an unhandled type arrives
C12_IgnoreStep ==
    \A p \in Procs :
        /\ ( /\ proc[p].pc = "webhook_user"
             /\ proc'[p] # proc[p]
             /\ faults' = faults
             /\ C12_NoSuchCustomer(db, proc[p].event) )
           => C12_IgnoredWith200(p)
        /\ ( /\ Free(p)
             /\ proc'[p] # proc[p]
             /\ proc'[p].op = "stripe_webhook"
             /\ cfg.STRIPE_WEBHOOK_SECRET /\ proc'[p].signature_ok
             /\ proc'[p].event.type \notin HandledTypes )
           => C12_IgnoredWith200(p)

\* A delivery of such an event is never past the lookup and has written nothing
C12_NothingWritten ==
    \A p \in Procs :
        proc[p].op = "stripe_webhook"
        => /\ proc[p].event.type \notin HandledTypes
                => (proc[p].pc = "done" /\ proc[p].touched = {})
           /\ (proc[p].event.type \in SubscriptionTypes
               /\ C12_NoSuchCustomer(db, proc[p].event))
                => (proc[p].pc \in {"webhook_user", "done"} /\ proc[p].touched = {})

\* C12: a verified event whose customer id matches no user, or whose type is none
\* of the four handled types, changes no state and is answered 200.
C12_UnknownEventsIgnored == [][C12_IgnoreStep]_vars /\ []C12_NothingWritten

\* C12 witness: a verified subscription event of a customer of no user and a
\* verified event of an unhandled type were both answered 200; nothing was written
C12_Witness ==
    \E p, r \in Procs :
        /\ proc[p].pc = "done" /\ proc[p].op = "stripe_webhook" /\ proc[p].signature_ok
        /\ proc[p].event.type \in SubscriptionTypes
        /\ proc[p].event.customer = "cus_unknown"
        /\ proc[p].resp = 200 /\ proc[p].touched = {}
        /\ proc[r].pc = "done" /\ proc[r].op = "stripe_webhook" /\ proc[r].signature_ok
        /\ proc[r].event.type \notin HandledTypes
        /\ proc[r].resp = 200 /\ proc[r].touched = {}
        /\ db \in StripeSeeds

-----------------------------------------------------------------------------
(* Every operation that writes the users table, one request after another *)

\* u1 is a premium subscriber with 500 points, with or without a Stripe customer;
\* u2 has no row; content 1 is published and is not u1's
FrameSeeds ==
    { [EmptyDb EXCEPT
         !.users = ("u1" :> SeedUserRow(500, PREMIUM, customer)),
         !.ai_contents = << [user_id |-> "u2", is_published |-> TRUE, votes |-> 0] >>] :
        customer \in {NoCustomer, CustomerOf("u1")} }

\* The events delivered: u1's subscription to the assistant plan, its deletion,
\* and the payment of a generation pack
FrameEvents ==
    { ev \in SubscriptionEvents :
        /\ ev.customer = CustomerOf("u1")
        /\ ev.price = STRIPE_PRICE_ID_ASSISTANT /\ ev.status = "active"
        /\ ev.type # "customer.subscription.updated" }
    \cup { PaymentEvent("u1", "2") }

InitFrame == InitWith({FullConfig}, FrameSeeds, TicksPerDay - 1, MaxRequests - 1)

NextFrame ==
    \/ Tick
    \/ \E p \in {"p1"}, u \in Users : SyncUserBegin(p, u)
    \/ \E p \in {"p1"} : SyncUserFetch(p)
    \/ \E p \in {"p1"} : SyncUserWrite(p)
    \/ \E p \in {"p1"}, display_name \in ProfileTexts, avatar_url \in ProfileTexts :
          UpdateProfile(p, "u1", display_name, avatar_url)
    \/ \E p \in {"p1"} : AdviceFetch(p, "u1")
    \/ \E p \in {"p1"} : AdviceReset(p)
    \/ \E p \in {"p1"} : AdviceGenerate(p)
    \/ \E p \in {"p1"}, pay \in {"points", "stripe"} : ContentFetch(p, "u1", "POST", pay)
    \/ \E p \in {"p1"} : ContentGenerate(p)
    \/ \E p \in {"p1"} : ContentDeduct(p)
    \/ \E p \in {"p1"} : ContentCount(p)
    \/ \E p \in {"p1"} : VoteFetch(p, "u1", 1)
    \/ \E p \in {"p1"} : VoteReset(p)
    \/ \E p \in {"p1"} : VoteCheck(p)
    \/ \E p \in {"p1"} : VoteOwner(p)
    \/ \E p \in {"p1"} : VoteInsert(p)
    \/ \E p \in {"p1"} : VoteIncrement(p)
    \/ \E p \in {"p1"} : VoteCount(p)
    \/ \E p \in {"p1"}, item_id \in {1, 2}, pay \in {"points", "stripe"} :
          BuyFetch(p, "u1", item_id, pay)
    \/ \E p \in {"p1"} : BuyItem(p)
    \/ \E p \in {"p1"} : BuyDeduct(p)
    \/ \E p \in {"p1"} : EffectFetch(p)
    \/ \E p \in {"p1"} : EffectUpdate(p)
    \/ \E p \in {"p1"} : EffectLog(p)
    \/ \E p \in {"p1"}, plan_type \in {"premium", "gold"} : CheckoutBegin(p, "u1", plan_type)
    \/ \E p \in {"p1"} : CheckoutCustomer(p)
    \/ \E p \in {"p1"}, ev \in FrameEvents : WebhookReceive(p, ev, TRUE)
    \/ \E p \in {"p1"} : WebhookUser(p)
    \/ \E p \in {"p1"} : WebhookSetPlan(p)
    \/ \E p \in {"p1"} : WebhookItem(p)

SpecFrame == InitFrame /\ [][NextFrame]_vars

\* The operations claim C13 lists as leaving subscription_plan alone
C13_FrameOps ==
    { "sync_user", "update_profile", "generate_advice", "generate_content",
      "vote_content", "buy_item", "create_checkout_session" }

\* Worker p takes a step of a request of one of these operations, or of a
\* payment_intent.succeeded delivery
C13_FrameOpStep(p) ==
    /\ proc'[p] # proc[p]
    /\ \/ proc'[p].op \in C13_FrameOps
       \/ /\ proc'[p].op = "stripe_webhook"
          /\ proc'[p].event.type = "payment_intent.succeeded"

C13_FrameStep ==
    \* a plan of an existing user changes only in the UPDATE of a subscription event
    /\ \A u \in DOMAIN db.users :
          db'.users[u].subscription_plan # db.users[u].subscription_plan
          => \E p \in Procs :
                /\ proc[p].op = "stripe_webhook" /\ proc[p].pc = "webhook_plan"
                /\ proc[p].event.type \in SubscriptionTypes
                /\ proc'[p].pc = "done"
    \* a row appears only in sync_user's INSERT, with plan free
    /\ \A u \in DOMAIN db'.users \ DOMAIN db.users :
          /\ db'.users[u].subscription_plan = FREE
          /\ \E p \in Procs :
                proc[p].op = "sync_user" /\ proc[p].pc = "sync_write" /\ proc[p].user = u
    \* the listed operations leave every existing user's plan as it is
    /\ \A p \in Procs :
          C13_FrameOpStep(p)
          => \A u \in DOMAIN db.users :
                db'.users[u].subscription_plan = db.users[u].subscription_plan
    \* sync_user leaves the balance of an existing user as it is
    /\ \A p \in Procs :
          (proc'[p] # proc[p] /\ proc'[p].op = "sync_user")
          => \A u \in DOMAIN db.users :
                db'.users[u].points_balance = db.users[u].points_balance

\* C13: subscription_plan is written only by sync_user's INSERT (free) and by
\* the subscription events of stripe_webhook; every other operation leaves it
\* unchanged, and sync_user of an existing user leaves points_balance unchanged.
C13_PlanFrame == [][C13_FrameStep]_vars

\* C13 witness: after a sync_user of the existing premium user has written a new
\* day's streak, a payment_intent.succeeded delivery has logged a purchase; u1 is
\* still premium with 500 points
C13_Witness ==
    \E r \in Procs :
        /\ db.users["u1"].login_streak = 2
        /\ proc[r].pc = "done" /\ proc[r].op = "stripe_webhook" /\ proc[r].resp = 200
        /\ proc[r].event.type = "payment_intent.succeeded"
        /\ "user_purchases" \in proc[r].touched
        /\ db.users["u1"].subscription_plan = PREMIUM
        /\ db.users["u1"].points_balance = 500

-----------------------------------------------------------------------------
(* generate_advice alone: one user on two workers, over a day boundary *)

\* u1 is on the free plan and has used two or all three generations of day 0
AdviceSeeds ==
    { [EmptyDb EXCEPT !.users =
         ("u1" :> [NewUserRow(0) EXCEPT !.daily_ai_generations_used = n])] :
        n \in {2, 3} }

InitAdvice ==
    InitWith({FullConfig, Configs_NoVertex}, AdviceSeeds, TicksPerDay - 1, MaxRequests - 1)

NextAdvice ==
    \/ Tick
    \/ \E p \in Procs : AdviceFetch(p, "u1")
    \/ \E p \in Procs : AdviceReset(p)
    \/ \E p \in Procs : AdviceGenerate(p)

SpecAdvice == InitAdvice /\ [][NextAdvice]_vars

\* The stored generation counter of user u
UsedOf(d, u) == d.users[u].daily_ai_generations_used

\* The limit of successful generations claim C6 gives each plan
C14_Quota(plan) ==
    CASE plan = FREE -> 3
      [] plan = PREMIUM -> 15
      [] plan = ASSISTANT -> 100

C14_AdviceStep ==
    \A p \in Procs :
        LET q == proc[p]
            u == proc'[p].user
        IN  (proc'[p] # q /\ proc'[p].op = "generate_advice")
            => \* Vertex AI is not initialised: 503 at once
               /\ (Free(p) /\ ~cfg.vertexai_initialized)
                    => (proc'[p].pc = "done" /\ proc'[p].resp = 503 /\ db' = db)
               \* the quota is reached: 429, nothing written
               /\ (q.pc = "advice_generate" /\ q.used >= C14_Quota(q.profile.subscription_plan))
                    => (proc'[p].pc = "done" /\ proc'[p].resp = 429 /\ db' = db)
               \* advice is returned: the counter is the request's count plus one,
               \* which is one more than the stored count unless another request
               \* moved it in between
               /\ (proc'[p].pc = "done" /\ proc'[p].resp = 200)
                    => /\ q.pc = "advice_generate"
                       /\ UsedOf(db', u) = q.used + 1
                       /\ UsedOf(db, u) = q.used => UsedOf(db', u) = UsedOf(db, u) + 1
               \* no advice is returned: nothing is written in this step
               /\ (proc'[p].pc = "done" /\ proc'[p].resp # 200) => db' = db
               \* the counter moves in the reset and with the advice only
               /\ UsedOf(db', u) # UsedOf(db, u)
                    => \/ proc'[p].pc = "done" /\ proc'[p].resp = 200
                       \/ /\ q.pc = "advice_reset" /\ UsedOf(db', u) = 0
                          /\ proc'[p].used = 0

-----------------------------------------------------------------------------
(* The generation counter under concurrent requests (SpecDaily) *)

\* The requests of user u that returned a generation on the UTC date of the clock
C15_Generated(u) ==
    { p \in Procs :
        /\ proc[p].pc = "done" /\ proc[p].resp = 200 /\ proc[p].user = u
        /\ proc[p].op \in {"generate_advice", "generate_content"}
        /\ DateOf(proc[p].now) = DateOf(clock) }

\* C15: within one UTC day daily_ai_generations_used equals the number of
\* generations that completed successfully that day, under any interleaving of
\* generate_advice, generate_content and sync_user; so on the day of the seed
\* (counter 0, no pack bought) the counter is never below the number of requests
\* that have returned a generation.
C15_NoLostGeneration ==
    DateOf(clock) = 0 => UsedOf(db, "u1") >= Cardinality(C15_Generated("u1"))

-----------------------------------------------------------------------------
(* vote_content near the daily limit: one free user on two workers, content 1 of
   another user and content 2 of another user or the voter's own *)

VoteSeeds ==
    { [EmptyDb EXCEPT
         !.users = ("u1" :> [NewUserRow(0) EXCEPT !.daily_votes_used = n]),
         !.ai_contents = << [user_id |-> "u2", is_published |-> TRUE, votes |-> 0],
                            [user_id |-> o, is_published |-> TRUE, votes |-> 0] >>] :
        n \in {DAILY_VOTE_LIMITS(FREE) - 1, DAILY_VOTE_LIMITS(FREE)}, o \in Users }

InitVote == InitWith({FullConfig}, VoteSeeds, TicksPerDay - 1, MaxRequests - 1)

NextVote ==
    \/ Tick
    \/ \E p \in Procs, c \in {1, 2} : VoteFetch(p, "u1", c)
    \/ \E p \in Procs : VoteReset(p)
    \/ \E p \in Procs : VoteCheck(p)
    \/ \E p \in Procs : VoteOwner(p)
    \/ \E p \in Procs : VoteInsert(p)
    \/ \E p \in Procs : VoteIncrement(p)
    \/ \E p \in Procs : VoteCount(p)

SpecVote == InitVote /\ [][NextVote]_vars

\* The votes rows of user u
RECURSIVE SumRows(_, _)
SumRows(d, pairs) ==
    IF pairs = {} THEN 0
    ELSE LET x == CHOOSE y \in pairs : TRUE
         IN  d.votes[x] + SumRows(d, pairs \ {x})

VotesBy(d, u) == SumRows(d, {x \in DOMAIN d.votes : x[1] = u})

\* The votes rows for content c
VotesFor(d, c) == SumRows(d, {x \in DOMAIN d.votes : x[2] = c})

\* The vote requests of user u that succeeded on the UTC date of the clock
C16_Voted(u) ==
    { p \in Procs :
        /\ proc[p].pc = "done" /\ proc[p].op = "vote_content" /\ proc[p].resp = 200
        /\ proc[p].user = u /\ DateOf(proc[p].now) = DateOf(clock) }

\* C16: a vote at the plan limit is rejected with 429 and changes nothing, so a
\* user casts at most the plan limit of successful votes in one UTC day, also when
\* the vote requests interleave. Here the free user starts the day with at least 4
\* of the 5 votes used, so on that day at most one more vote request succeeds.
C16_DailyVoteLimit ==
    DateOf(clock) = 0 => 4 + Cardinality(C16_Voted("u1")) <= 5

-----------------------------------------------------------------------------
(* Votes for one's own content (SpecVote) *)

\* Request p is a vote of the user who owns the content voted for
C17_OwnVote(q) ==
    /\ q.op = "vote_content"
    /\ q.content \in DOMAIN db.ai_contents
    /\ db.ai_contents[q.content].user_id = q.user

\* The answer of request q comes from a failing database query
C17_QueryFailed(q) ==
    q.raised.kind = "http" /\ q.raised.detail[1] \in {"Database error", "Internal server error"}

C17_OwnVoteStep ==
    \A p \in Procs :
        LET q == proc'[p]
        IN  (q # proc[p] /\ C17_OwnVote(q))
            => \* no row in votes, no vote count changes
               /\ db'.votes = db.votes /\ db'.ai_contents = db.ai_contents
               \* the voter's counter moves only in the due daily reset
               /\ db'.users # db.users
                    => /\ proc[p].pc = "vote_reset" /\ ResetDue(clock, FromIsoFormat(proc[p].profile.last_vote_reset_date))
                       /\ db'.users = [db.users EXCEPT ![q.user].daily_votes_used = 0,
                                                       ![q.user].last_vote_reset_date = clock]
               \* the request is rejected: 429 at the daily limit, else 400
               /\ q.pc = "done"
                    => /\ q.resp # 200
                       /\ C17_QueryFailed(q)
                          \/ q.resp = (IF q.used >= 5 THEN 429 ELSE 400)

\* C17 as amended: a vote by the owner of the content is always rejected (HTTP 429
\* when the owner's daily vote count has reached the limit, which is checked
\* first, otherwise HTTP 400) and leaves the votes table, the content's vote count
\* and the voter's daily_votes_used unchanged apart from a due daily reset.
C17_OwnVoteRejected == [][C17_OwnVoteStep]_vars

\* C17 as stated: every vote by the owner of the content that reaches an answer
\* without a failing query is answered 400.
C17_OwnVoteRejected_AsStated ==
    \A p \in Procs :
        (proc[p].pc = "done" /\ C17_OwnVote(proc[p]) /\ ~C17_QueryFailed(proc[p]))
            => proc[p].resp = 400

\* C17 witness: the owner's vote for content 2 passed the limit check with 4 of 5
\* votes used and was rejected with 400 by the owner check, nothing written
C17_Witness ==
    \E p \in Procs :
        /\ proc[p].pc = "done" /\ C17_OwnVote(proc[p]) /\ proc[p].content = 2
        /\ proc[p].resp = 400 /\ proc[p].raised.detail[1] = "Non puoi votare il tuo stesso contenuto."
        /\ proc[p].used = 4 /\ proc[p].touched = {}
        /\ VotesFor(db, 2) = 0 /\ db.ai_contents[2].votes = 0

-----------------------------------------------------------------------------
(* Votes rows and vote counts (SpecVote) *)

\* A vote_content request is between its first query and its answer
C18_VoteInProgress ==
    \E p \in Procs : proc[p].op = "vote_content" /\ proc[p].pc \notin {"idle", "done"}

\* C18: whenever no vote request is in progress, each content's vote count equals
\* the number of votes rows for it, including after a vote request that failed
\* part-way through its three separate database writes.
C18_CountsMatchRows ==
    ~C18_VoteInProgress
        => \A c \in DOMAIN db.ai_contents : db.ai_contents[c].votes = VotesFor(db, c)

-----------------------------------------------------------------------------
(* Points purchases and their purchase record (SpecShop) *)

\* C19: in buy_item paid with points, points are deducted if and only if a
\* user_purchases row is logged: a request that has been answered has changed
\* the balance exactly when it has added a purchase row, also when it failed
\* after the deduction.
C19_ChargedIffLogged ==
    \A p \in Procs :
        (proc[p].pc = "done" /\ proc[p].op = "buy_item" /\ proc[p].pay = "points")
            => ("points_balance" \in proc[p].touched <=> "user_purchases" \in proc[p].touched)

-----------------------------------------------------------------------------
(* generate_content paid with points and its three writes (SpecShop) *)

\* C20: generate_content paid with points is all-or-nothing; a request answered
\* with an error has stored no ai_contents row, deducted no points and left the
\* generation counter unchanged.
C20_ErrorLeavesNothing ==
    \A p \in Procs :
        (/\ proc[p].pc = "done" /\ proc[p].op = "generate_content"
         /\ proc[p].pay = "points" /\ proc[p].resp # 200)
            => proc[p].touched \cap {"ai_contents", "points_balance", "daily_ai_generations_used"} = {}

-----------------------------------------------------------------------------
(* generate_content under every outcome of the Vertex AI initialisation: one
   free user with 500 points on two workers *)

\* Stripe configured; Vertex AI initialised, or stopped before or after the
\* text model was constructed
ContentConfigs == { c \in Configs : c.STRIPE_SECRET_KEY /\ c.STRIPE_WEBHOOK_SECRET }

ContentSeeds == { [EmptyDb EXCEPT !.users = ("u1" :> SeedUserRow(500, FREE, NoCustomer))] }

InitContent == InitWith(ContentConfigs, ContentSeeds, 0, MaxRequests - 1)

NextContent ==
    \/ \E p \in Procs, ctype \in ContentType, pay \in {"points", "stripe"} :
          ContentFetch(p, "u1", ctype, pay)
    \/ \E p \in Procs : ContentGenerate(p)
    \/ \E p \in Procs : ContentDeduct(p)
    \/ \E p \in Procs : ContentCount(p)

SpecContent == InitContent /\ [][NextContent]_vars

\* Request q asks for an image while the vision model is not available
C21_ImageWithoutVision(q) ==
    q.op = "generate_content" /\ q.ctype = "IMAGE" /\ ~cfg.gemini_pro_vision_model

\* C21 as amended: an IMAGE request while the vision model is not available is
\* answered at once with HTTP 503 and the detail 'AI service is not available.'
\* of the check for an uninitialised Vertex AI, before any query and any write.
C21_ImageUnavailable ==
    \A p \in Procs :
        C21_ImageWithoutVision(proc[p])
            => /\ proc[p].pc = "done" /\ proc[p].resp = 503
               /\ proc[p].raised.detail[1] = "AI service is not available."
               /\ proc[p].touched = {}

\* C21 as stated: the answer is HTTP 503 with the detail 'AI image generation
\* model not available'.
C21_ImageUnavailable_AsStated ==
    \A p \in Procs :
        (C21_ImageWithoutVision(proc[p]) /\ proc[p].pc = "done")
            => /\ proc[p].resp = 503
               /\ proc[p].raised.detail[1] = "AI image generation model not available."

\* C21 witness: the text model was constructed and the vision model was not; an
\* IMAGE request has been answered 503
C21_Witness ==
    \E p \in Procs :
        /\ C21_ImageWithoutVision(proc[p]) /\ cfg.gemini_flash_model
        /\ proc[p].pc = "done" /\ proc[p].resp = 503 /\ db.ai_contents = << >>

-----------------------------------------------------------------------------
(* Shop purchases paid through Stripe: buy_item and the payment webhook for one
   user on two workers *)

\* u1 is on the free plan and owns 500 points
PaySeeds == { [EmptyDb EXCEPT !.users = ("u1" :> SeedUserRow(500, FREE, NoCustomer))] }

PayEvents == { PaymentEvent("u1", text) : text \in {"1", "2"} }

InitPay == InitWith({FullConfig, Configs_NoWebhookSecret}, PaySeeds, 0, MaxRequests - 1)

NextPay ==
    \/ \E p \in Procs, item_id \in {1, 2}, pay \in {"points", "stripe"} :
          BuyFetch(p, "u1", item_id, pay)
    \/ \E p \in Procs : BuyItem(p)
    \/ \E p \in Procs : BuyDeduct(p)
    \/ \E p \in Procs, ev \in PayEvents, signature_ok \in BOOLEAN :
          WebhookReceive(p, ev, signature_ok)
    \/ \E p \in Procs : WebhookItem(p)
    \/ \E p \in Procs : EffectFetch(p)
    \/ \E p \in Procs : EffectUpdate(p)
    \/ \E p \in Procs : EffectLog(p)

SpecPay == InitPay /\ [][NextPay]_vars

\* The user_purchases rows paid through Stripe
StripeRows(d) == { r \in BagToSet(d.user_purchases) : r.payment_method = "stripe" }

\* Request q is the processing of a verified payment_intent.succeeded event for
\* user u and item item_id
C22_VerifiedPayment(q, u, item_id) ==
    /\ q.op = "stripe_webhook" /\ q.signature_ok /\ cfg.STRIPE_WEBHOOK_SECRET
    /\ q.event.type = "payment_intent.succeeded"
    /\ q.event.user_id = u /\ q.event.item_id = (IF item_id = 1 THEN "1" ELSE "2")

C22_PayStep ==
    \* buy_item paid through Stripe writes nothing; answered 200 it has created
    \* the payment intent
    /\ \A p \in Procs :
          (proc'[p] # proc[p] /\ proc'[p].op = "buy_item" /\ proc'[p].pay = "stripe")
              => /\ db' = db
                 /\ (proc'[p].pc = "done" /\ proc'[p].resp = 200)
                      => <<proc'[p].user, proc'[p].item>> \in stripe_intents'
                 /\ stripe_intents' # stripe_intents
                      => (proc'[p].pc = "done" /\ proc'[p].resp = 200)
    \* a Stripe purchase row is written by a verified payment event for its user
    \* and item only, with status completed
    /\ \A r \in StripeRows(db') :
          CopiesIn(r, db'.user_purchases) > CopiesIn(r, db.user_purchases)
              => /\ r.status = "completed"
                 /\ \E p \in Procs :
                      /\ proc'[p] # proc[p]
                      /\ C22_VerifiedPayment(proc[p], r.user_id, r.item_id)
    \* the effect of an item not paid with points is applied by such an event only
    /\ \A p \in Procs :
          (proc'[p] # proc[p] /\ proc[p].pay = "stripe" /\ db'.users # db.users)
              => C22_VerifiedPayment(proc[p], proc[p].user, proc[p].item)

\* C22: buy_item with payment_method 'stripe' creates a payment intent and changes
\* no balance, counter or purchase row; the item effect is applied and the
\* purchase row (payment_method 'stripe', status 'completed') is written only
\* while a verified payment_intent.succeeded event for that user and item is
\* processed.
C22_EffectOnlyAfterPayment == [][C22_PayStep]_vars

\* C22 witness: buy_item created the intent for the generation pack and wrote
\* nothing; the verified payment event then applied the pack and logged the row
C22_Witness ==
    \E p \in Procs :
        /\ <<"u1", 2>> \in stripe_intents
        /\ proc[p].pc = "done" /\ proc[p].resp = 200 /\ C22_VerifiedPayment(proc[p], "u1", 2)
        /\ proc[p].touched = {"daily_ai_generations_used", "user_purchases"}
        /\ StripeRows(db) = {PurchaseRow("u1", 2, "stripe")}
        /\ db.users["u1"].points_balance = 500

-----------------------------------------------------------------------------
(* Repeated delivery of one payment event: the intent for the generation pack of
   u1 exists and Stripe delivers its payment_intent.succeeded event, to two
   workers, as often as it likes *)

\* u1 has used the three generations of the day
RedeliverySeeds ==
    { [EmptyDb EXCEPT !.users =
         ("u1" :> [SeedUserRow(500, FREE, NoCustomer) EXCEPT !.daily_ai_generations_used = 3])] }

InitRedelivery ==
    /\ clock = 0
    /\ cfg = FullConfig
    /\ db \in RedeliverySeeds
    /\ stripe_intents = {<<"u1", 2>>}
    /\ proc = [p \in Procs |-> Idle]
    /\ faults = 0
    /\ budget = MaxRequests

NextRedelivery ==
    \/ \E p \in Procs, signature_ok \in BOOLEAN :
          WebhookReceive(p, PaymentEvent("u1", "2"), signature_ok)
    \/ \E p \in Procs : WebhookItem(p)
    \/ \E p \in Procs : EffectFetch(p)
    \/ \E p \in Procs : EffectUpdate(p)
    \/ \E p \in Procs : EffectLog(p)

SpecRedelivery == InitRedelivery /\ [][NextRedelivery]_vars

\* C23: however many times the verified payment_intent.succeeded event of one
\* payment is delivered, the item effect is applied once (the pack of 2 takes the
\* counter from 3 to 1, never lower) and at most one user_purchases row exists
\* for that payment.
C23_OnePurchasePerPayment ==
    /\ CopiesIn(PurchaseRow("u1", 2, "stripe"), db.user_purchases) <= 1
    /\ UsedOf(db, "u1") >= 1

-----------------------------------------------------------------------------
(* AIManager.publish_ai_content and AIManager.get_feed *)

\* UPDATE ai_contents SET is_published = TRUE WHERE id = %s
publish_ai_content_All(d, ai_content_id) ==
    [d EXCEPT !.ai_contents = [c \in DOMAIN @ |-> [@[c] EXCEPT !.is_published = TRUE]]]

publish_ai_content(d, ai_content_id) ==
    IF ai_content_id \in DOMAIN d.ai_contents
    THEN [d EXCEPT !.ai_contents[ai_content_id].is_published = TRUE]
    ELSE d

PublishContent(p, ai_content_id) ==
    /\ MayStart(p)
    /\ budget' = budget - 1
    /\ LET q == [Idle EXCEPT !.op = "publish_ai_content", !.content = ai_content_id]
       IN  \/ /\ Commit(p, publish_ai_content(db, ai_content_id),
                        [proc EXCEPT ![p] = Finished(q, NoExc)])
              /\ UNCHANGED <<clock, cfg, stripe_intents, faults>>
           \/ /\ CanFault
              /\ \E k \in FaultKinds :
                   /\ faults' = faults + 1
                   /\ proc' = [proc EXCEPT ![p] = Finished(q, PgFailure(k, "error"))]
              /\ UNCHANGED <<clock, cfg, db, stripe_intents>>

\* ... FROM ai_contents ac JOIN users u ON ac.user_id = u.user_id
\* WHERE ac.is_published = TRUE: the ids of the rows selected
FeedRows(d) ==
    { c \in DOMAIN d.ai_contents :
        d.ai_contents[c].is_published /\ UserExists(d, d.ai_contents[c].user_id) }

\* ORDER BY ac.votes DESC, ac.created_at DESC (a later row has the higher id)
RECURSIVE FeedOrder(_, _)
FeedOrder(d, ids) ==
    IF ids = {} THEN << >>
    ELSE LET first == CHOOSE c \in ids :
                        \A o \in ids \ {c} :
                            \/ d.ai_contents[c].votes > d.ai_contents[o].votes
                            \/ d.ai_contents[c].votes = d.ai_contents[o].votes /\ c > o
         IN  <<first>> \o FeedOrder(d, ids \ {first})

\* LIMIT 50
get_feed(d) ==
    LET rows == FeedOrder(d, FeedRows(d))
    IN  IF Len(rows) > 50 THEN SubSeq(rows, 1, 50) ELSE rows

GetFeed(p) ==
    /\ MayStart(p)
    /\ budget' = budget - 1
    /\ LET q == [Idle EXCEPT !.op = "get_feed"]
       IN  \/ /\ proc' = [proc EXCEPT ![p] = Finished([q EXCEPT !.feed = get_feed(db)], NoExc)]
              /\ UNCHANGED <<clock, cfg, db, stripe_intents, faults>>
           \/ /\ CanFault
              /\ \E k \in FaultKinds :
                   /\ faults' = faults + 1
                   /\ proc' = [proc EXCEPT ![p] = Finished(q, PgFailure(k, "error"))]
              /\ UNCHANGED <<clock, cfg, db, stripe_intents>>

-----------------------------------------------------------------------------
(* Generation, publication and the feed: the contents of u1, generated,
   published and read on two workers *)

\* u1 has 500 points; u2 has a row; no content is stored yet
FeedSeeds ==
    { [EmptyDb EXCEPT !.users = ("u1" :> SeedUserRow(500, FREE, NoCustomer)) @@
                                ("u2" :> NewUserRow(0))] }

InitFeed == InitWith({FullConfig}, FeedSeeds, 0, MaxRequests)

NextFeed ==
    \/ \E p \in Procs : ContentFetch(p, "u1", "POST", "stripe")
    \/ \E p \in Procs : ContentGenerate(p)
    \/ \E p \in Procs : ContentCount(p)
    \/ \E p \in Procs, ai_content_id \in ContentIds : PublishContent(p, ai_content_id)
    \/ \E p \in Procs : GetFeed(p)

SpecFeed == InitFeed /\ [][NextFeed]_vars

\* Worker p takes a step of a request of operation op
C24_Acts(p, op) == proc'[p] # proc[p] /\ proc'[p].op = op

C24_FeedStep ==
    \* rows are only added, unpublished and without votes
    /\ Len(db'.ai_contents) >= Len(db.ai_contents)
    /\ \A c \in DOMAIN db'.ai_contents \ DOMAIN db.ai_contents :
          ~db'.ai_contents[c].is_published /\ db'.ai_contents[c].votes = 0
    /\ \A c \in DOMAIN db.ai_contents :
          \* once published, published for good
          /\ db.ai_contents[c].is_published => db'.ai_contents[c].is_published
          \* published by a successful publish_ai_content for its id only
          /\ (~db.ai_contents[c].is_published /\ db'.ai_contents[c].is_published)
                => \E p \in Procs : /\ C24_Acts(p, "publish_ai_content")
                                    /\ proc'[p].content = c /\ proc'[p].resp = 200
    /\ \A p \in Procs :
          \* publish_ai_content changes is_published of its content and nothing
          \* else, and nothing at all when the content is already published
          /\ C24_Acts(p, "publish_ai_content")
                => LET c == proc'[p].content
                   IN  /\ db'.users = db.users /\ db'.votes = db.votes
                       /\ db'.user_purchases = db.user_purchases
                       /\ db'.payout_requests = db.payout_requests
                       /\ DOMAIN db'.ai_contents = DOMAIN db.ai_contents
                       /\ \A o \in DOMAIN db.ai_contents :
                             IF o = c /\ proc'[p].resp = 200
                             THEN db'.ai_contents[o] = [db.ai_contents[o] EXCEPT !.is_published = TRUE]
                             ELSE db'.ai_contents[o] = db.ai_contents[o]
                       /\ (c \in DOMAIN db.ai_contents /\ db.ai_contents[c].is_published)
                             => db' = db
          \* the feed holds published contents only, and reading it writes nothing
          /\ C24_Acts(p, "get_feed")
                => /\ db' = db
                   /\ \A i \in DOMAIN proc'[p].feed :
                         /\ proc'[p].feed[i] \in DOMAIN db.ai_contents
                         /\ db.ai_contents[proc'[p].feed[i]].is_published

\* C24: content stored by generate_content is unpublished and is in no feed until
\* publish_ai_content has been called for its id; once published it stays
\* published; publish_ai_content is idempotent and changes nothing but
\* is_published of that one content.
C24_FeedOnlyAfterPublication == [][C24_FeedStep]_vars

\* C24 witness: content 1 was generated and published, and a feed read returned it
C24_Witness ==
    \E p \in Procs :
        /\ proc[p].pc = "done" /\ proc[p].op = "get_feed" /\ proc[p].resp = 200
        /\ proc[p].feed = <<1>>
        /\ db.ai_contents[1].is_published /\ db.ai_contents[1].user_id = "u1"

-----------------------------------------------------------------------------
(* request_payout_endpoint: payouts of a user who owns 500 points *)

PayoutSeeds == { [EmptyDb EXCEPT !.users = ("u1" :> SeedUserRow(500, FREE, NoCustomer))] }

InitPayout == InitWith({FullConfig}, PayoutSeeds, 0, MaxRequests)

NextPayout ==
    \/ Tick
    \/ \E p \in Procs, u \in Users, points_amount \in {100, 300, 600} :
          RequestPayout(p, u, points_amount)

SpecPayout == InitPayout /\ [][NextPayout]_vars

\* The answer to request q comes from a database error raised for the query
C25_DatabaseError(q) == q.raised.kind = "http" /\ q.raised.detail[1] = "Database error"

\* The function returned no result
C25_EmptyResult(q) ==
    q.raised.kind = "http"
    /\ q.raised.detail[1] = "Failed to process payout request. Check database function logs."

C25_PayoutStep ==
    \A p \in Procs :
        (proc'[p] # proc[p] /\ proc'[p].op = "request_payout")
            => LET q == proc'[p]
               IN  \* the request is answered by its one query
                   /\ q.pc = "done"
                   \* the EUR amount passed is points_amount / 1000
                   /\ q.amount_eur[1] * 1000 = q.points_amount * q.amount_eur[2]
                   /\ q.amount_eur[2] > 0
                   \* a database error is mapped by its message
                   /\ C25_DatabaseError(q)
                        => /\ q.resp = (IF q.raised.detail[2] = "Punti insufficienti" THEN 402 ELSE 400)
                           /\ db' = db
                   \* an empty result is answered 400, the tables as the function left them
                   /\ C25_EmptyResult(q)
                        => /\ q.resp = 400
                           /\ db' \in {db, request_payout_function(db, q.user, q.points_amount,
                                                                   q.amount_eur).db}
                   \* only a request answered 200 has filed a payout for certain,
                   \* with the amounts passed
                   /\ q.resp = 200
                        => /\ db'.users[q.user].points_balance
                                = db.users[q.user].points_balance - q.points_amount
                           /\ CopiesIn([user_id |-> q.user, points_amount |-> q.points_amount,
                                        amount_eur |-> q.amount_eur, status |-> "pending"],
                                       db'.payout_requests) > 0

\* C25: request_payout answers 402 for a database error whose text contains
\* 'Punti insufficienti', 400 for any other database error and 400 for an empty
\* result; in every failing case the application writes nothing itself, and
\* the EUR amount passed to the function is points_amount / 1000.
C25_PayoutFailureMapping == [][C25_PayoutStep]_vars

\* C25 witness: a payout of 600 points was refused to the owner of 500 points
\* with 402, the balance untouched, 0.6 EUR having been passed
C25_Witness ==
    \E p \in Procs :
        /\ proc[p].pc = "done" /\ proc[p].op = "request_payout" /\ proc[p].resp = 402
        /\ proc[p].raised.code = 400 /\ proc[p].raised.detail[2] = "Punti insufficienti"
        /\ proc[p].points_amount = 600 /\ proc[p].amount_eur = <<600, 1000>>
        /\ proc[p].touched = {} /\ db.users["u1"].points_balance = 500

====
